---- MODULE Spec2Model ----
(***************************************************************************)
(* Agent contracts: the Contract lifecycle, the ResourceMonitor, the       *)
(* ContractEnforcer and the ContractAgent execution harness.               *)
(*                                                                         *)
(* One contract is governed by one ContractAgent, whose enforcer and       *)
(* resource monitor are also reachable by the caller (agent.enforcer,      *)
(* agent.resource_monitor, agent.contract), so the caller may interleave   *)
(* Contract transition calls, enforcer operations, usage reports and       *)
(* execute() calls.  Every handler is one atomic action.                   *)
(***************************************************************************)
EXTENDS Integers, Sequences, FiniteSets, TLC

\* ---------------------------------------------------------------- bounds
MaxTime == 1          \* the wall clock runs over 0..MaxTime
MaxTokens == 2        \* cap on usage.tokens reached by the mutators
MaxApiCalls == 2      \* cap on usage.api_calls reached by the mutators
MaxViolations == 2    \* cap on the length of monitor.violations
MaxCallbacks == 2     \* cap on the number of user callbacks registered
MaxEvents == 1        \* cap on agent._events growing outside execute()
MaxCount == 1         \* cap on web searches + tool uses + compute + cost together
MaxMemory == 2        \* largest reading passed to update_memory

\* ------------------------------------------------------------- constants
None == -1            \* Python None for an optional non-negative number

DRAFTED == "drafted"
ACTIVE == "active"
FULFILLED == "fulfilled"
VIOLATED == "violated"
EXPIRED == "expired"
TERMINATED == "terminated"

ContractState == {DRAFTED, ACTIVE, FULFILLED, VIOLATED, EXPIRED, TERMINATED}

TerminalStates == {FULFILLED, VIOLATED, EXPIRED, TERMINATED}

\* The numeric ResourceUsage fields, in the order check_constraints visits them.
Resources ==
  << "tokens", "reasoning_tokens", "text_tokens", "api_calls", "web_searches",
     "tool_invocations", "memory_mb", "compute_seconds", "cost_usd" >>

ResourceNames == { Resources[i] : i \in 1..Len(Resources) }

NoConstraints == [r \in ResourceNames |-> None]

ZeroUsage == [r \in ResourceNames |-> 0]

\* Callback identities: the agent's own logging callback and the user's.
LogCallback == "log"
UserCallbackSeq == << "cb1", "cb2" >>
UserCallbacks == { UserCallbackSeq[i] : i \in 1..Len(UserCallbackSeq) }

VARIABLES
  state,               \* contract.state
  metadata,            \* contract.metadata: violation_reason, termination_reason
  constraints,         \* contract.resources (frozen)
  temporal,            \* contract.temporal: deadline, max_duration (frozen)
  strict_mode,         \* enforcer.strict_mode / agent.strict_mode
  enable_logging,      \* agent.enable_logging
  enforcement_active,  \* enforcer._enforcement_active
  callbacks,           \* enforcer.callbacks
  usage,               \* monitor.usage counters
  usage_start_time,    \* monitor.usage.start_time
  violations,          \* monitor.violations
  events,              \* agent._events
  execution_log,       \* agent.execution_log (its final_state), or the absent log
  tm_start_time,       \* agent.temporal_monitor.start_time
  auto_start,          \* llm.auto_start of the ContractedLLM
  started,             \* llm._started of the ContractedLLM
  peer_active,         \* _enforcement_active of a second enforcer on the contract
  now,                 \* the wall clock, datetime.now()
  last                 \* the last call made: operation, outcome, deliveries

vars ==
  << state, metadata, constraints, temporal, strict_mode, enable_logging,
     enforcement_active, callbacks, usage, usage_start_time, violations,
     events, execution_log, tm_start_time, auto_start, started, peer_active,
     now, last >>

\* ------------------------------------------------------------ the world
\* The mutable objects a handler works on, together with the exception in
\* flight (exc), the handler's return value (ret), the callback deliveries
\* made so far by this handler (dl) and whether it has called the underlying
\* litellm completion (called).
NoExc == "none"
NoRet == [kind |-> "none"]
NoReason == "no_reason"

\* A message or reason text: its fixed wording and the violations it lists.
Msg(text, details) == [text |-> text, details |-> details]

NoReasonMsg == Msg(NoReason, << >>)

\* agent.execution_log is None until an execute() with logging creates it.
NoLog == [present |-> FALSE, final_state |-> DRAFTED, ended |-> FALSE]

World ==
  [ state |-> state, metadata |-> metadata,
    enforcement_active |-> enforcement_active, callbacks |-> callbacks,
    usage |-> usage, violations |-> violations, events |-> events,
    execution_log |-> execution_log, tm_start_time |-> tm_start_time,
    started |-> started, called |-> FALSE,
    exc |-> NoExc, ret |-> NoRet, dl |-> << >> ]

Ok(w) == w.exc = NoExc

Raise(w, e) == [w EXCEPT !.exc = e]

Return(w, r) == IF Ok(w) THEN [w EXCEPT !.ret = r] ELSE w

\* ------------------------------------------------- Contract (contract.py)
\* activate() that accepts a contract in any state.
activate_from_any_state(w) ==
  IF ~Ok(w) THEN w ELSE [w EXCEPT !.state = ACTIVE]

activate(w) ==
  IF ~Ok(w) THEN w
  ELSE IF w.state # DRAFTED THEN Raise(w, "ValueError: Cannot activate contract")
  ELSE [w EXCEPT !.state = ACTIVE]

fulfill(w) ==
  IF ~Ok(w) THEN w
  ELSE IF w.state # ACTIVE THEN Raise(w, "ValueError: Cannot fulfill contract")
  ELSE [w EXCEPT !.state = FULFILLED]

violate(w, reason) ==
  IF ~Ok(w) THEN w
  ELSE IF w.state # ACTIVE THEN Raise(w, "ValueError: Cannot violate contract")
  ELSE [w EXCEPT !.state = VIOLATED,
                 !.metadata.violation_reason =
                    IF reason # NoReasonMsg THEN reason ELSE @]

expire(w) ==
  IF ~Ok(w) THEN w
  ELSE IF w.state # ACTIVE THEN Raise(w, "ValueError: Cannot expire contract")
  ELSE [w EXCEPT !.state = EXPIRED]

\* terminate() with its source-state check left out.
terminate_unguarded(w, reason) ==
  IF ~Ok(w) THEN w
  ELSE [w EXCEPT !.state = TERMINATED,
                 !.metadata.termination_reason =
                    IF reason # NoReasonMsg THEN reason ELSE @]

terminate(w, reason) ==
  IF ~Ok(w) THEN w
  ELSE IF w.state \notin {DRAFTED, ACTIVE}
       THEN Raise(w, "ValueError: Cannot terminate contract")
  ELSE [w EXCEPT !.state = TERMINATED,
                 !.metadata.termination_reason =
                    IF reason # NoReasonMsg THEN reason ELSE @]

\* ------------------------------------ ResourceConstraints (contract.py)
HighEffortMinimum == 2000    \* reasoning_effort="high" needs this budget
MediumEffortMinimum == 500   \* reasoning_effort="medium" needs this budget

NoEffort == "none"           \* reasoning_effort=None
ValidEfforts == {"low", "medium", "high"}

\* The first field, in declaration order, holding a negative number; 0 if none.
RECURSIVE FirstNegative(_, _)
FirstNegative(i, fields) ==
  IF i > Len(Resources) THEN 0
  ELSE IF fields[Resources[i]] # None /\ fields[Resources[i]] < 0 THEN i
  ELSE FirstNegative(i + 1, fields)

\* Python truthiness of an optional number: set and nonzero.
Truthy(v) == v # None /\ v # 0

validate_reasoning_compatibility(w, fields, effort) ==
  LET budget == fields.reasoning_tokens
  IN IF effort = "high" /\ budget # None /\ budget < HighEffortMinimum
     THEN Raise(w, "ValueError: reasoning_effort='high' requires more reasoning tokens")
     ELSE IF effort = "medium" /\ budget # None /\ budget < MediumEffortMinimum
     THEN Raise(w, "ValueError: reasoning_effort='medium' requires more reasoning tokens")
     ELSE w

\* __post_init__ that takes a zero tokens budget for an unset one.
resource_constraints_truthy_mode(w, fields, effort) ==
  LET has_lumpsum == Truthy(fields.tokens)
      has_fine_grained == fields.reasoning_tokens # None \/ fields.text_tokens # None
  IN IF ~Ok(w) THEN w
     ELSE IF FirstNegative(1, fields) # 0
     THEN Raise(w, "ValueError: " \o Resources[FirstNegative(1, fields)]
                     \o " must be non-negative")
     ELSE IF has_lumpsum /\ has_fine_grained
     THEN Raise(w, "ValueError: Cannot mix token budget modes")
     ELSE IF effort # NoEffort /\ effort \notin ValidEfforts
     THEN Raise(w, "ValueError: reasoning_effort must be one of low, medium, high")
     ELSE LET w1 == IF effort # NoEffort /\ Truthy(fields.reasoning_tokens)
                    THEN validate_reasoning_compatibility(w, fields, effort)
                    ELSE w
          IN Return(w1, [kind |-> "constraints", fields |-> fields,
                         reasoning_effort |-> effort])

\* ResourceConstraints(**fields, reasoning_effort=effort): the dataclass's
\* __post_init__; the object exists only if it returns.
resource_constraints(w, fields, effort) ==
  LET has_lumpsum == fields.tokens # None
      has_fine_grained == fields.reasoning_tokens # None \/ fields.text_tokens # None
  IN IF ~Ok(w) THEN w
     ELSE IF FirstNegative(1, fields) # 0
     THEN Raise(w, "ValueError: " \o Resources[FirstNegative(1, fields)]
                     \o " must be non-negative")
     ELSE IF has_lumpsum /\ has_fine_grained
     THEN Raise(w, "ValueError: Cannot mix token budget modes")
     ELSE IF effort # NoEffort /\ effort \notin ValidEfforts
     THEN Raise(w, "ValueError: reasoning_effort must be one of low, medium, high")
     ELSE LET w1 == IF effort # NoEffort /\ Truthy(fields.reasoning_tokens)
                    THEN validate_reasoning_compatibility(w, fields, effort)
                    ELSE w
          IN Return(w1, [kind |-> "constraints", fields |-> fields,
                         reasoning_effort |-> effort])

\* --------------------------------------- ResourceMonitor (monitor.py)
\* The violations of the resources Resources[i..], in order.
RECURSIVE CheckFrom(_, _, _)
CheckFrom(i, cons, use) ==
  IF i > Len(Resources) THEN << >>
  ELSE LET r == Resources[i]
           rest == CheckFrom(i + 1, cons, use)
       IN IF cons[r] # None /\ use[r] > cons[r]
          THEN << [resource |-> r, limit |-> cons[r], actual |-> use[r]] >> \o rest
          ELSE rest

\* A check that already reports usage equal to the limit.
RECURSIVE CheckFromInclusive(_, _, _)
CheckFromInclusive(i, cons, use) ==
  IF i > Len(Resources) THEN << >>
  ELSE LET r == Resources[i]
           rest == CheckFromInclusive(i + 1, cons, use)
       IN IF cons[r] # None /\ use[r] >= cons[r]
          THEN << [resource |-> r, limit |-> cons[r], actual |-> use[r]] >> \o rest
          ELSE rest

monitor_check_constraints_inclusive(cons, use) == CheckFromInclusive(1, cons, use)

monitor_check_constraints(cons, use) == CheckFrom(1, cons, use)

is_violated(cons, use) == Len(monitor_check_constraints(cons, use)) > 0

\* get_usage_percentage(): the entries of the returned dict, in the order the
\* code adds them; a percentage (usage / limit) * 100 is kept as the exact
\* fraction num / den.
RECURSIVE PercentFrom(_, _, _)
PercentFrom(i, cons, use) ==
  IF i > Len(Resources) THEN << >>
  ELSE LET r == Resources[i]
           rest == PercentFrom(i + 1, cons, use)
       IN IF cons[r] # None /\ cons[r] > 0
          THEN << [resource |-> r, num |-> use[r] * 100, den |-> cons[r]] >> \o rest
          ELSE rest

\* get_usage_percentage() that only asks for the limit to be set.
get_usage_percentage_any_limit(cons, use) ==
  LET shown == [r \in ResourceNames |-> IF cons[r] = 0 THEN 1 ELSE cons[r]]
  IN PercentFrom(1, shown, use)

get_usage_percentage(cons, use) == PercentFrom(1, cons, use)

record_violation(w, v) ==
  IF ~Ok(w) THEN w ELSE [w EXCEPT !.violations = Append(@, v)]

RECURSIVE record_violations(_, _)
record_violations(w, vs) ==
  IF vs = << >> THEN w
  ELSE record_violations(record_violation(w, Head(vs)), Tail(vs))

\* ------------------------------------------- ContractEnforcer (enforcement.py)
EnforcementEvent(type, message, data) ==
  [type |-> type, message |-> message, data |-> data]

NoData == [violations |-> << >>, reason |-> NoReasonMsg]

\* ContractAgent._on_enforcement_event: the agent's logging callback.
on_enforcement_event(w, event) ==
  IF enable_logging
  THEN [w EXCEPT !.events = Append(@, [type |-> event.type, message |-> event.message])]
  ELSE w

\* What a callback can read through event.contract and the enforcer at the
\* moment it is called.
Seen(w) ==
  [state |-> w.state, violation_reason |-> w.metadata.violation_reason,
   violations |-> w.violations,
   is_active |-> w.enforcement_active /\ w.state = ACTIVE]

\* One callback invocation: cb is called with the event; a user callback in
\* bad raises from its body.
call_callback(w, cb, event, bad) ==
  LET w1 == IF cb = LogCallback THEN on_enforcement_event(w, event) ELSE w
  IN [w1 EXCEPT !.dl = Append(@, [cb |-> cb, event |-> event, raised |-> cb \in bad,
                                  seen |-> Seen(w)]),
                !.exc = IF cb \in bad THEN "Exception: callback error" ELSE @]

\* A delivery loop with no try/except: the first raising callback ends the
\* loop and its exception propagates.
RECURSIVE EmitFromUnguarded(_, _, _, _)
EmitFromUnguarded(w, i, event, bad) ==
  IF i > Len(w.callbacks) THEN w
  ELSE LET w1 == call_callback(w, w.callbacks[i], event, bad)
       IN IF Ok(w1) THEN EmitFromUnguarded(w1, i + 1, event, bad) ELSE w1

\* for callback in self.callbacks: try: callback(event) except Exception: print
RECURSIVE EmitFrom(_, _, _, _)
EmitFrom(w, i, event, bad) ==
  IF i > Len(w.callbacks) THEN w
  ELSE LET w1 == call_callback(w, w.callbacks[i], event, bad)
           w2 == [w1 EXCEPT !.exc = NoExc]
       IN EmitFrom(w2, i + 1, event, bad)

emit_event(w, event, bad) ==
  IF ~Ok(w) THEN w ELSE EmitFrom(w, 1, event, bad)

is_active(w) == w.enforcement_active /\ w.state = ACTIVE

\* start() that expires an overdue contract on the spot.
start_expiring(w, bad) ==
  IF ~Ok(w) THEN w
  ELSE IF w.enforcement_active
       THEN Raise(w, "RuntimeError: Enforcement is already active")
  ELSE LET w1 == activate(w)
           w2 == IF Ok(w1) THEN [w1 EXCEPT !.enforcement_active = TRUE] ELSE w1
           w3 == emit_event(w2,
                   EnforcementEvent("contract_started", Msg("enforcement started", << >>), NoData),
                   bad)
       IN IF Ok(w3) /\ temporal.deadline # None /\ now > temporal.deadline
          THEN expire(w3)
          ELSE w3

\* start() without its already-active check.
start_unguarded(w, bad) ==
  IF ~Ok(w) THEN w
  ELSE LET w1 == activate(w)
           w2 == IF Ok(w1) THEN [w1 EXCEPT !.enforcement_active = TRUE] ELSE w1
       IN emit_event(w2,
            EnforcementEvent("contract_started", Msg("enforcement started", << >>), NoData),
            bad)

start(w, bad) ==
  IF ~Ok(w) THEN w
  ELSE IF w.enforcement_active
       THEN Raise(w, "RuntimeError: Enforcement is already active")
  ELSE LET w1 == activate(w)
           w2 == IF Ok(w1) THEN [w1 EXCEPT !.enforcement_active = TRUE] ELSE w1
       IN emit_event(w2,
            EnforcementEvent("contract_started", Msg("enforcement started", << >>), NoData),
            bad)

\* stop() that announces nothing.
stop_silent(w, reason, bad) ==
  IF ~Ok(w) THEN w
  ELSE IF ~w.enforcement_active THEN w
  ELSE [w EXCEPT !.enforcement_active = FALSE]

stop(w, reason, bad) ==
  IF ~Ok(w) THEN w
  ELSE IF ~w.enforcement_active THEN w
  ELSE emit_event([w EXCEPT !.enforcement_active = FALSE],
         EnforcementEvent("contract_stopped", Msg("enforcement stopped", << >>),
                          [violations |-> << >>, reason |-> reason]),
         bad)

\* _handle_violation that stops and announces but never marks the contract.
handle_violation_keeps_state(w, vs, bad) ==
  LET reason == Msg("Resource constraints violated", vs)
      w2 == stop(w, reason, bad)
  IN emit_event(w2,
       EnforcementEvent("contract_terminated",
                        Msg("Contract terminated due to violations", vs),
                        [violations |-> vs, reason |-> reason]),
       bad)

handle_violation(w, vs, bad) ==
  LET reason == Msg("Resource constraints violated", vs)
      w1 == violate(w, reason)
      w2 == stop(w1, reason, bad)
  IN emit_event(w2,
       EnforcementEvent("contract_terminated",
                        Msg("Contract terminated due to violations", vs),
                        [violations |-> vs, reason |-> reason]),
       bad)

\* check_constraints that announces the violation before recording it.
check_constraints_announces_first(w, bad) ==
  IF ~Ok(w) THEN w
  ELSE LET vs == monitor_check_constraints(constraints, w.usage)
       IN IF Len(vs) > 0
          THEN LET w1 == emit_event(w,
                           EnforcementEvent("constraint_violated",
                             Msg("Constraint violation: resource(s) exceeded", vs),
                             [violations |-> vs, reason |-> NoReasonMsg]),
                           bad)
                   w2 == record_violations(w1, vs)
                   w3 == IF strict_mode THEN handle_violation(w2, vs, bad) ELSE w2
               IN Return(w3, [kind |-> "check", is_violated |-> TRUE, violations |-> vs])
          ELSE Return(w, [kind |-> "check", is_violated |-> FALSE, violations |-> vs])

check_constraints(w, bad) ==
  IF ~Ok(w) THEN w
  ELSE LET vs == monitor_check_constraints(constraints, w.usage)
       IN IF Len(vs) > 0
          THEN LET w1 == record_violations(w, vs)
                   w2 == emit_event(w1,
                           EnforcementEvent("constraint_violated",
                             Msg("Constraint violation: resource(s) exceeded", vs),
                             [violations |-> vs, reason |-> NoReasonMsg]),
                           bad)
                   w3 == IF strict_mode THEN handle_violation(w2, vs, bad) ELSE w2
               IN Return(w3, [kind |-> "check", is_violated |-> TRUE, violations |-> vs])
          ELSE Return(w, [kind |-> "check", is_violated |-> FALSE, violations |-> vs])

\* monitor.usage.elapsed_time(): datetime.now() - usage.start_time
elapsed_time == now - usage_start_time

handle_deadline_exceeded(w, bad) ==
  LET reason == Msg("Deadline exceeded", << >>)
      w1 == expire(w)
      w2 == stop(w1, reason, bad)
  IN emit_event(w2,
       EnforcementEvent("contract_expired", Msg("Contract expired due to deadline", << >>),
                        [violations |-> << >>, reason |-> reason]),
       bad)

handle_duration_exceeded(w, bad) ==
  LET reason == Msg("Max duration exceeded", << >>)
      w1 == expire(w)
      w2 == stop(w1, reason, bad)
  IN emit_event(w2,
       EnforcementEvent("contract_expired",
                        Msg("Contract expired due to duration limit", << >>),
                        [violations |-> << >>, reason |-> reason]),
       bad)

\* check_temporal_constraints that looks at the absolute deadline only.
check_temporal_constraints_deadline_only(w, bad) ==
  IF ~Ok(w) THEN w
  ELSE IF temporal.deadline # None /\ now > temporal.deadline
  THEN LET w1 == emit_event(w,
                   EnforcementEvent("deadline_exceeded",
                                    Msg("Contract deadline exceeded", << >>), NoData),
                   bad)
           w2 == IF strict_mode THEN handle_deadline_exceeded(w1, bad) ELSE w1
       IN Return(w2, [kind |-> "bool", value |-> TRUE])
  ELSE Return(w, [kind |-> "bool", value |-> FALSE])

check_temporal_constraints(w, bad) ==
  IF ~Ok(w) THEN w
  ELSE IF temporal.deadline # None /\ now > temporal.deadline
  THEN LET w1 == emit_event(w,
                   EnforcementEvent("deadline_exceeded",
                                    Msg("Contract deadline exceeded", << >>), NoData),
                   bad)
           w2 == IF strict_mode THEN handle_deadline_exceeded(w1, bad) ELSE w1
       IN Return(w2, [kind |-> "bool", value |-> TRUE])
  ELSE IF temporal.max_duration # None /\ elapsed_time > temporal.max_duration
  THEN LET w1 == emit_event(w,
                   EnforcementEvent("duration_exceeded",
                                    Msg("Contract max duration exceeded", << >>), NoData),
                   bad)
           w2 == IF strict_mode THEN handle_duration_exceeded(w1, bad) ELSE w1
       IN Return(w2, [kind |-> "bool", value |-> TRUE])
  ELSE Return(w, [kind |-> "bool", value |-> FALSE])

add_callback(w, cb) == [w EXCEPT !.callbacks = Append(@, cb)]

\* ------------------------------------------------ ResourceUsage (monitor.py)
add_tokens(w, count, reasoning, text) ==
  IF ~Ok(w) THEN w
  ELSE IF count < 0 THEN Raise(w, "ValueError: Token count must be non-negative")
  ELSE IF reasoning < 0 THEN Raise(w, "ValueError: Reasoning tokens must be non-negative")
  ELSE IF text < 0 THEN Raise(w, "ValueError: Text tokens must be non-negative")
  ELSE IF reasoning > 0 \/ text > 0
  THEN [w EXCEPT !.usage.reasoning_tokens = @ + reasoning,
                 !.usage.text_tokens = @ + text,
                 !.usage.tokens = @ + reasoning + text]
  ELSE [w EXCEPT !.usage.tokens = @ + count]

add_api_call(w, cost, tokens) ==
  IF ~Ok(w) THEN w
  ELSE IF cost < 0 THEN Raise(w, "ValueError: Cost must be non-negative")
  ELSE IF tokens < 0 THEN Raise(w, "ValueError: Tokens must be non-negative")
  ELSE [w EXCEPT !.usage.api_calls = @ + 1,
                 !.usage.cost_usd = @ + cost,
                 !.usage.tokens = @ + tokens]

add_web_search(w) ==
  IF ~Ok(w) THEN w ELSE [w EXCEPT !.usage.web_searches = @ + 1]

add_tool_invocation(w) ==
  IF ~Ok(w) THEN w ELSE [w EXCEPT !.usage.tool_invocations = @ + 1]

\* update_memory that stores the latest reading instead of the peak.
update_memory_latest(w, memory_mb) ==
  IF ~Ok(w) THEN w
  ELSE IF memory_mb < 0 THEN Raise(w, "ValueError: Memory must be non-negative")
  ELSE [w EXCEPT !.usage.memory_mb = memory_mb]

update_memory(w, memory_mb) ==
  IF ~Ok(w) THEN w
  ELSE IF memory_mb < 0 THEN Raise(w, "ValueError: Memory must be non-negative")
  ELSE [w EXCEPT !.usage.memory_mb = IF @ >= memory_mb THEN @ ELSE memory_mb]

add_compute_time(w, seconds) ==
  IF ~Ok(w) THEN w
  ELSE IF seconds < 0 THEN Raise(w, "ValueError: Compute time must be non-negative")
  ELSE [w EXCEPT !.usage.compute_seconds = @ + seconds]

add_cost(w, cost_usd) ==
  IF ~Ok(w) THEN w
  ELSE IF cost_usd < 0 THEN Raise(w, "ValueError: Cost must be non-negative")
  ELSE [w EXCEPT !.usage.cost_usd = @ + cost_usd]

\* ---------------------------------------------------- ContractAgent (wrapper.py)
\* TemporalMonitor.start(): records start_time.
temporal_monitor_start(w) == [w EXCEPT !.tm_start_time = now]

\* The wrapped operation: it may report token usage to the shared monitor, and
\* then returns a value, returns None or raises.
OutcomeValue == "value"
OutcomeNull == "null"
OutcomeRaise == "raise"
Outcomes == {OutcomeValue, OutcomeNull, OutcomeRaise}

monitored_execution(w, outcome, delta) ==
  LET w1 == IF delta > 0 THEN add_tokens(w, delta, 0, 0) ELSE w
  IN IF outcome = OutcomeRaise THEN Raise(w1, "Exception: agent failed") ELSE w1

check_success_criteria(outcome) == outcome # OutcomeNull

\* [event["message"] for event in self._events
\*    if event["type"] in ("violation", "constraint_violated")]
RECURSIVE violation_messages(_)
violation_messages(evs) ==
  IF evs = << >> THEN << >>
  ELSE IF Head(evs).type \in {"violation", "constraint_violated"}
       THEN << Head(evs).message >> \o violation_messages(Tail(evs))
       ELSE violation_messages(Tail(evs))

finalize_log(w) ==
  IF enable_logging /\ w.execution_log.present
  THEN [w EXCEPT !.execution_log.ended = TRUE, !.execution_log.final_state = w.state]
  ELSE w

ExecutionResult(w, output, success, vmsgs) ==
  [kind |-> "result", output |-> output, success |-> success,
   violations |-> vmsgs, execution_log |-> w.execution_log]

\* The try block of execute(), lines 208-269.
execute_try(w, outcome, delta, bad) ==
  LET w1 == monitored_execution(w, outcome, delta)
      w2 == check_constraints(w1, bad)
      violated == Ok(w2) /\ w2.ret.is_violated
      w3 == check_temporal_constraints(w2, bad)
      success == check_success_criteria(outcome) /\ ~violated
      w4 == IF violated THEN [w3 EXCEPT !.state = VIOLATED]
            ELSE IF ~success
            THEN [w3 EXCEPT !.state = VIOLATED,
                            !.events = Append(@, [type |-> "incomplete",
                                 message |-> Msg("Success criteria not met", << >>)])]
            ELSE w3
      w5 == finalize_log(w4)
  IN IF Ok(w3)
     THEN Return(w5, ExecutionResult(w5, outcome, success, violation_messages(w5.events)))
     ELSE w3

\* An except branch that reports the failure but leaves the contract state.
execute_except_keeps_state(w) ==
  LET e == w.exc
      w1 == [w EXCEPT !.exc = NoExc,
                      !.events = Append(@, [type |-> "error", message |-> Msg(e, << >>)])]
      w2 == finalize_log(w1)
  IN Return(w2, ExecutionResult(w2, OutcomeNull, FALSE, << Msg(e, << >>) >>))

\* The except branch of execute(), lines 271-297.
execute_except(w) ==
  LET e == w.exc
      w1 == [w EXCEPT !.exc = NoExc, !.state = VIOLATED,
                      !.events = Append(@, [type |-> "error", message |-> Msg(e, << >>)])]
      w2 == finalize_log(w1)
  IN Return(w2, ExecutionResult(w2, OutcomeNull, FALSE, << Msg(e, << >>) >>))

\* execute() that clears the usage record once the call is over.
execute_resets_usage(w, outcome, delta, bad) ==
  LET w1 == [w EXCEPT !.events = << >>,
                      !.execution_log =
                         IF enable_logging
                         THEN [present |-> TRUE, final_state |-> ACTIVE, ended |-> FALSE]
                         ELSE @]
      w2 == temporal_monitor_start(w1)
      w3 == IF ~w2.enforcement_active THEN start(w2, bad) ELSE w2
  IN IF ~Ok(w3) THEN w3
     ELSE LET w4 == execute_try(w3, outcome, delta, bad)
              w5 == IF Ok(w4) THEN w4 ELSE execute_except(w4)
          IN [w5 EXCEPT !.usage = ZeroUsage]

execute(w, outcome, delta, bad) ==
  LET w1 == [w EXCEPT !.events = << >>,
                      !.execution_log =
                         IF enable_logging
                         THEN [present |-> TRUE, final_state |-> ACTIVE, ended |-> FALSE]
                         ELSE @]
      w2 == temporal_monitor_start(w1)
      w3 == IF ~w2.enforcement_active THEN start(w2, bad) ELSE w2
  IN IF ~Ok(w3) THEN w3
     ELSE LET w4 == execute_try(w3, outcome, delta, bad)
          IN IF Ok(w4) THEN w4 ELSE execute_except(w4)

\* ------------------------------------- ContractedLLM (litellm_wrapper.py)
\* What litellm's completion() does for one call: it raises, or it returns a
\* response whose usage block carries prompt_tokens and completion_tokens
\* and, for reasoning models, completion_tokens_details with reasoning_tokens
\* and text_tokens; cost is the cost litellm or the TokenCounter puts on it.
LlmResponse(prompt, completion, details, reasoning, text, cost) ==
  [kind |-> "response", prompt_tokens |-> prompt, completion_tokens |-> completion,
   details |-> details, reasoning_tokens |-> reasoning, text_tokens |-> text,
   cost |-> cost]

LlmFailure == [kind |-> "raise"]

llm_start(w, bad) ==
  IF ~Ok(w) THEN w
  ELSE IF w.started THEN Raise(w, "RuntimeError: Enforcement already started")
  ELSE LET w1 == start(w, bad)
       IN IF Ok(w1) THEN [w1 EXCEPT !.started = TRUE] ELSE w1

llm_stop(w, bad) ==
  IF ~Ok(w) THEN w
  ELSE IF w.started
  THEN LET w1 == stop(w, NoReasonMsg, bad)
       IN IF Ok(w1) THEN [w1 EXCEPT !.started = FALSE] ELSE w1
  ELSE w

\* _check_constraints_before_call / _check_constraints_after_call: the two
\* differ in the wording of the resource message only.
llm_check_constraints(w, wording, bad) ==
  IF ~Ok(w) THEN w
  ELSE IF ~w.started THEN w
  ELSE LET w1 == check_constraints(w, bad)
       IN IF ~Ok(w1) THEN w1
          ELSE IF w1.ret.is_violated /\ strict_mode THEN Raise(w1, wording)
          ELSE LET w2 == check_temporal_constraints(w1, bad)
               IN IF ~Ok(w2) THEN w2
                  ELSE IF w2.ret.value /\ strict_mode
                  THEN Raise(w2, "ContractViolationError: Temporal constraints exceeded")
                  ELSE w2

check_constraints_before_call(w, bad) ==
  llm_check_constraints(w, "ContractViolationError: Contract already violated", bad)

check_constraints_after_call(w, bad) ==
  llm_check_constraints(w, "ContractViolationError: Contract violated", bad)

\* The usage bookkeeping of completion() for a response, lines 116-160.
track_response(w, resp) ==
  LET reasoning == IF resp.details THEN resp.reasoning_tokens ELSE 0
      text == IF resp.details THEN resp.text_tokens ELSE 0
      w1 == add_api_call(w, resp.cost, 0)
      w2 == IF reasoning > 0 \/ text > 0
            THEN add_tokens(w1, 0, reasoning, text)
            ELSE add_tokens(w1, 0, 0, resp.completion_tokens)
  IN add_tokens(w2, resp.prompt_tokens, 0, 0)

completion(w, resp, bad) ==
  LET w1 == IF auto_start /\ ~w.started THEN llm_start(w, bad) ELSE w
      w2 == check_constraints_before_call(w1, bad)
  IN IF ~Ok(w2) THEN w2
     ELSE LET w3 == [w2 EXCEPT !.called = TRUE]
          IN IF resp.kind = "raise"
             THEN Raise(add_api_call(w3, 0, 0), "Exception: completion failed")
             ELSE LET w4 == track_response(w3, resp)
                      w5 == emit_event(w4,
                              EnforcementEvent("llm_completion",
                                               Msg("LLM completion", << >>), NoData),
                              bad)
                      w6 == check_constraints_after_call(w5, bad)
                  IN Return(w6, resp)

\* ------------------------------------------------------------ configurations
TokenLimit == 1       \* the tokens ceiling of the contracts explored
ApiCallLimit == 1     \* the api_calls ceiling of the contracts explored
Deadline == 0         \* the absolute deadline of the contracts explored
MaxDuration == 0      \* the max_duration of the contracts explored

\* The agent's contract: a lumpsum token budget.
ConstraintConfigs ==
  { [NoConstraints EXCEPT !.tokens = TokenLimit] }

\* The enforcer's contract: a token budget together with an api_calls budget.
EnforcerConstraintConfigs ==
  { [NoConstraints EXCEPT !.tokens = TokenLimit, !.api_calls = ApiCallLimit] }

MemoryLimit == 1      \* the memory_mb ceiling of the contracts explored

\* The monitor's contracts: a lumpsum budget with further limits, one of them
\* zero; a reasoning-only budget; a text-only budget.
UsageConstraintConfigs ==
  { [NoConstraints EXCEPT !.tokens = TokenLimit, !.api_calls = ApiCallLimit,
                          !.memory_mb = MemoryLimit, !.cost_usd = 0],
    [NoConstraints EXCEPT !.reasoning_tokens = TokenLimit],
    [NoConstraints EXCEPT !.text_tokens = TokenLimit] }

\* No temporal constraint, an absolute deadline, or a maximum duration.
TemporalConfigs ==
  { [deadline |-> None, max_duration |-> None],
    [deadline |-> Deadline, max_duration |-> None],
    [deadline |-> None, max_duration |-> MaxDuration] }

\* ------------------------------------------------------------------- actions
\* After a handler has run on the world: the objects take the world's values
\* and the call is noted in last.
NoArg == [outcome |-> "none", delta |-> 0]

Commit(op, arg, w) ==
  /\ state' = w.state
  /\ metadata' = w.metadata
  /\ enforcement_active' = w.enforcement_active
  /\ callbacks' = w.callbacks
  /\ usage' = w.usage
  /\ violations' = w.violations
  /\ events' = w.events
  /\ execution_log' = w.execution_log
  /\ tm_start_time' = w.tm_start_time
  /\ started' = w.started
  /\ last' = [op |-> op, arg |-> arg, exc |-> w.exc, ret |-> w.ret, dl |-> w.dl,
              called |-> w.called]
  /\ UNCHANGED << constraints, temporal, strict_mode, enable_logging,
                  usage_start_time, auto_start, peer_active, now >>

Registered == { callbacks[i] : i \in 1..Len(callbacks) }

\* The user callbacks that raise during one handler.
BadSets == SUBSET (Registered \cap UserCallbacks)

\* A check may append this many violations to monitor.violations.
RoomForCheck ==
  Len(violations) + Len(monitor_check_constraints(constraints, usage)) <= MaxViolations

\* execute() empties agent._events; a direct enforcer call only appends to it.
RoomForEvents(w) == Len(w.events) <= MaxEvents

\* The state after Contract(...) and ContractAgent(contract, agent, strict_mode,
\* enable_logging), given the contract's constraints.
Constructed(cons, logging, auto) ==
  /\ state = DRAFTED
  /\ metadata = [violation_reason |-> NoReasonMsg, termination_reason |-> NoReasonMsg]
  /\ constraints \in cons
  /\ temporal \in TemporalConfigs
  /\ strict_mode \in BOOLEAN
  /\ enable_logging \in logging
  /\ enforcement_active = FALSE
  /\ callbacks = IF enable_logging THEN << LogCallback >> ELSE << >>
  /\ usage = ZeroUsage
  /\ usage_start_time = 0
  /\ violations = << >>
  /\ events = << >>
  /\ execution_log = NoLog
  /\ tm_start_time = None
  /\ auto_start \in auto
  /\ started = FALSE
  /\ peer_active = FALSE
  /\ now = 0
  /\ last = [op |-> "init", arg |-> NoArg, exc |-> NoExc, ret |-> NoRet, dl |-> << >>,
             called |-> FALSE]

Init == Constructed(ConstraintConfigs, BOOLEAN, {TRUE})

\* An enforcer used on its own, with the observers the caller registers.
InitEnforcer == Constructed(EnforcerConstraintConfigs, {FALSE}, {TRUE})

Activate ==
  \E w \in { activate(World) } : Commit("activate", NoArg, w)

Fulfill ==
  \E w \in { fulfill(World) } : Commit("fulfill", NoArg, w)

Violate ==
  \E w \in { violate(World, NoReasonMsg) } : Commit("violate", NoArg, w)

Expire ==
  \E w \in { expire(World) } : Commit("expire", NoArg, w)

Terminate ==
  \E w \in { terminate(World, NoReasonMsg) } : Commit("terminate", NoArg, w)

Start ==
  \E bad \in BadSets :
    /\ RoomForEvents(start(World, bad))
    /\ Commit("start", NoArg, start(World, bad))

Stop ==
  \E bad \in BadSets :
    /\ RoomForEvents(stop(World, NoReasonMsg, bad))
    /\ Commit("stop", NoArg, stop(World, NoReasonMsg, bad))

CheckConstraints ==
  /\ RoomForCheck
  /\ \E bad \in BadSets :
       /\ RoomForEvents(check_constraints(World, bad))
       /\ Commit("check_constraints", NoArg, check_constraints(World, bad))

CheckTemporalConstraints ==
  \E bad \in BadSets :
    /\ RoomForEvents(check_temporal_constraints(World, bad))
    /\ Commit("check_temporal_constraints", NoArg, check_temporal_constraints(World, bad))

\* Observers are registered right after construction, before the first call,
\* each distinct observer once.
AddCallback ==
  /\ last.op \in {"init", "add_callback"}
  /\ Len(callbacks) < MaxCallbacks
  /\ Len(callbacks) < Len(UserCallbackSeq)
  /\ Commit("add_callback", NoArg, add_callback(World, UserCallbackSeq[Len(callbacks) + 1]))

AddTokens ==
  \E count \in 1..2 :
    /\ usage.tokens + count <= MaxTokens
    /\ Commit("add_tokens", NoArg, add_tokens(World, count, 0, 0))

AddApiCall ==
  /\ usage.api_calls < MaxApiCalls
  /\ Commit("add_api_call", NoArg, add_api_call(World, 0, 0))

Execute ==
  \E outcome \in Outcomes, delta \in 0..1, bad \in BadSets :
    /\ usage.tokens + delta <= MaxTokens
    /\ Len(violations)
         + Len(monitor_check_constraints(constraints,
                 [usage EXCEPT !.tokens = @ + delta])) <= MaxViolations
    /\ Commit("execute", [outcome |-> outcome, delta |-> delta], execute(World, outcome, delta, bad))

Tick ==
  /\ now < MaxTime
  /\ now' = now + 1
  /\ last' = [op |-> "tick", arg |-> NoArg, exc |-> NoExc, ret |-> NoRet, dl |-> << >>,
              called |-> FALSE]
  /\ UNCHANGED << state, metadata, constraints, temporal, strict_mode, enable_logging,
                  enforcement_active, callbacks, usage, usage_start_time, violations,
                  events, execution_log, tm_start_time, auto_start, started,
                  peer_active >>

\* The caller drives the contract, the enforcer, the monitor and the agent.
Next ==
  \/ Activate
  \/ Fulfill
  \/ Violate
  \/ Expire
  \/ Terminate
  \/ Start
  \/ Stop
  \/ CheckConstraints
  \/ CheckTemporalConstraints
  \/ AddTokens
  \/ Execute
  \/ Tick

Spec == Init /\ [][Next]_vars

\* The caller drives the contract, the enforcer and the monitor directly.
NextEnforcer ==
  \/ Activate
  \/ Terminate
  \/ Start
  \/ Stop
  \/ CheckConstraints
  \/ CheckTemporalConstraints
  \/ AddCallback
  \/ AddTokens
  \/ AddApiCall
  \/ Tick

SpecEnforcer == InitEnforcer /\ [][NextEnforcer]_vars

\* ---------------------------------------------------- ContractedLLM actions
\* The responses litellm may give: the breakdown, when present, splits at
\* most the completion tokens between reasoning and text.
Responses ==
  {LlmFailure}
  \cup { LlmResponse(p, c, FALSE, 0, 0, 0) : p \in 0..1, c \in 0..2 }
  \cup { LlmResponse(p, rt[1] + rt[2] + rt[3], TRUE, rt[1], rt[2], 0) :
           p \in 0..1,
           rt \in { x \in (0..2) \X (0..2) \X (0..2) : x[1] + x[2] + x[3] <= 2 } }

\* The counters and the violation list stay within the bounds explored.
WithinBounds(w) ==
  /\ w.usage.tokens <= MaxTokens
  /\ w.usage.api_calls <= MaxApiCalls
  /\ Len(w.violations) <= MaxViolations

\* A ContractedLLM owns its enforcer, constructed without callbacks.
InitLLM == Constructed(EnforcerConstraintConfigs, {FALSE}, BOOLEAN)

LlmStart ==
  \E bad \in BadSets : Commit("llm_start", NoArg, llm_start(World, bad))

LlmStop ==
  \E bad \in BadSets : Commit("llm_stop", NoArg, llm_stop(World, bad))

Completion ==
  \E resp \in Responses, bad \in BadSets :
    /\ WithinBounds(completion(World, resp, bad))
    /\ Commit("completion", [outcome |-> "none", delta |-> 0, resp |-> resp],
              completion(World, resp, bad))

\* The caller drives the ContractedLLM; time passes between calls.
NextLLM ==
  \/ LlmStart
  \/ LlmStop
  \/ Completion
  \/ Tick

SpecLLM == InitLLM /\ [][NextLLM]_vars

\* ------------------------------------- ResourceUsage / ResourceMonitor actions
\* A ResourceMonitor used on its own: the caller reports usage with every
\* mutator, negative arguments included, and asks for checks and percentages.
InitUsage ==
  /\ Constructed(UsageConstraintConfigs, {FALSE}, {TRUE})
  /\ temporal = [deadline |-> None, max_duration |-> None]
  /\ ~strict_mode

WithinUsage(w) ==
  /\ w.usage.tokens <= MaxTokens
  /\ w.usage.api_calls <= MaxApiCalls
  /\ w.usage.memory_mb <= MaxMemory
  /\ w.usage.web_searches + w.usage.tool_invocations
       + w.usage.compute_seconds + w.usage.cost_usd <= MaxCount

ReportTokens ==
  \E count \in -1..1, reasoning \in -1..1, text \in -1..1 :
    /\ WithinUsage(add_tokens(World, count, reasoning, text))
    /\ Commit("add_tokens", NoArg, add_tokens(World, count, reasoning, text))

ReportApiCall ==
  \E cost \in -1..1, tokens \in -1..1 :
    /\ WithinUsage(add_api_call(World, cost, tokens))
    /\ Commit("add_api_call", NoArg, add_api_call(World, cost, tokens))

AddWebSearch ==
  /\ WithinUsage(add_web_search(World))
  /\ Commit("add_web_search", NoArg, add_web_search(World))

AddToolInvocation ==
  /\ WithinUsage(add_tool_invocation(World))
  /\ Commit("add_tool_invocation", NoArg, add_tool_invocation(World))

UpdateMemory ==
  \E memory_mb \in -1..MaxMemory :
    Commit("update_memory", [outcome |-> "none", delta |-> 0, value |-> memory_mb],
           update_memory(World, memory_mb))

AddComputeTime ==
  \E seconds \in -1..1 :
    /\ WithinUsage(add_compute_time(World, seconds))
    /\ Commit("add_compute_time", NoArg, add_compute_time(World, seconds))

AddCost ==
  \E cost_usd \in -1..1 :
    /\ WithinUsage(add_cost(World, cost_usd))
    /\ Commit("add_cost", NoArg, add_cost(World, cost_usd))

MonitorCheckConstraints ==
  Commit("monitor_check_constraints", NoArg,
         Return(World, [kind |-> "violations",
                        violations |-> monitor_check_constraints(constraints, usage)]))

GetUsagePercentage ==
  Commit("get_usage_percentage", NoArg,
         Return(World, [kind |-> "percentages",
                        entries |-> get_usage_percentage(constraints, usage)]))

NextUsage ==
  \/ ReportTokens
  \/ ReportApiCall
  \/ AddWebSearch
  \/ AddToolInvocation
  \/ UpdateMemory
  \/ AddComputeTime
  \/ AddCost
  \/ MonitorCheckConstraints
  \/ GetUsagePercentage

SpecUsage == InitUsage /\ [][NextUsage]_vars

\* ------------------------------------------------ ResourceConstraints actions
\* The budgets tried for reasoning_tokens: unset, negative, zero, small, and
\* the values around the two effort minimums.
ReasoningBudgets ==
  {None, -2, 0, 1, MediumEffortMinimum - 1, MediumEffortMinimum,
   HighEffortMinimum - 1, HighEffortMinimum}

SmallBudgets == {None, -2, 0, 1}

Efforts == {NoEffort, "low", "medium", "high", "extreme"}

\* Before any constraints object has been built.
InitConstraints ==
  /\ Constructed({NoConstraints}, {FALSE}, {TRUE})
  /\ temporal = [deadline |-> None, max_duration |-> None]
  /\ ~strict_mode

\* One constructor call, with any of the arguments tried.
NewResourceConstraints ==
  \E tokens \in SmallBudgets, reasoning \in ReasoningBudgets, text \in SmallBudgets,
     calls \in SmallBudgets, effort \in Efforts :
    LET fields == [NoConstraints EXCEPT !.tokens = tokens,
                                        !.reasoning_tokens = reasoning,
                                        !.text_tokens = text,
                                        !.api_calls = calls]
    IN /\ last.op = "init"
       /\ Commit("ResourceConstraints",
              [outcome |-> "none", delta |-> 0, fields |-> fields,
               reasoning_effort |-> effort],
              resource_constraints(World, fields, effort))

NextConstraints == NewResourceConstraints

SpecConstraints == InitConstraints /\ [][NextConstraints]_vars

\* =================================================================== claims
ContractCalls == {"activate", "fulfill", "violate", "expire", "terminate"}

\* The lifecycle table: the source states a transition call is legal from,
\* and the state it leads to.
LegalFrom(op) ==
  CASE op = "activate" -> {DRAFTED}
    [] op = "fulfill" -> {ACTIVE}
    [] op = "violate" -> {ACTIVE}
    [] op = "expire" -> {ACTIVE}
    [] op = "terminate" -> {DRAFTED, ACTIVE}

TargetOf(op) ==
  CASE op = "activate" -> ACTIVE
    [] op = "fulfill" -> FULFILLED
    [] op = "violate" -> VIOLATED
    [] op = "expire" -> EXPIRED
    [] op = "terminate" -> TERMINATED

\* C1: a Contract transition call made in a state it is legal from succeeds
\* and moves the contract to its target state; made in any other of the six
\* states it raises and leaves the state unchanged.
C1_LifecycleTable ==
  [][ last'.op \in ContractCalls =>
        (IF state \in LegalFrom(last'.op)
         THEN last'.exc = NoExc /\ state' = TargetOf(last'.op)
         ELSE last'.exc # NoExc /\ state' = state) ]_vars

\* An illegal call was rejected after a legal one had succeeded.
C1_Witness ==
  /\ last.op = "terminate"
  /\ last.exc # NoExc
  /\ state = FULFILLED

\* C2: once the contract is in a terminal state, no later call changes it.
C2_TerminalSticky ==
  [][ (state \in TerminalStates) => (state' = state) ]_vars

\* The resources whose limit is set and exceeded by the current usage.
Exceeded == { r \in ResourceNames : constraints[r] # None /\ usage[r] > constraints[r] }

\* is_active() of the enforcer, before and after the step.
IsActive == enforcement_active /\ state = ACTIVE

IsActiveAfter == enforcement_active' /\ state' = ACTIVE

\* C3: on an active enforcer, when some resource exceeds its limit,
\* check_constraints() returns (True, violations) naming every exceeded
\* resource; in strict mode the contract is then VIOLATED and is_active() is
\* false, in lenient mode the contract is still ACTIVE and is_active() true.
C3_CheckConstraintsModes ==
  [][ (last'.op = "check_constraints" /\ IsActive /\ Exceeded # {}) =>
        /\ last'.exc = NoExc
        /\ last'.ret.kind = "check"
        /\ last'.ret.is_violated
        /\ \A r \in Exceeded :
             \E i \in 1..Len(last'.ret.violations) : last'.ret.violations[i].resource = r
        /\ (strict_mode => state' = VIOLATED /\ ~IsActiveAfter)
        /\ (~strict_mode => state' = ACTIVE /\ IsActiveAfter) ]_vars

\* A strict check has just found the token budget exceeded.
C3_Witness ==
  /\ last.op = "check_constraints"
  /\ last.exc = NoExc
  /\ last.ret.kind = "check"
  /\ last.ret.is_violated
  /\ strict_mode
  /\ state = VIOLATED
  /\ ~enforcement_active

\* The positions in the delivery log at which callback cb got an event of type t.
Deliveries(dl, cb, t) == { i \in 1..Len(dl) : dl[i].cb = cb /\ dl[i].event.type = t }

\* Every registered callback got exactly one constraint_violated carrying the
\* violation list vs, then contract_stopped, then exactly one contract_terminated.
ViolationThenTermination(dl, vs) ==
  \A k \in 1..Len(callbacks) :
    LET cb == callbacks[k]
        cv == Deliveries(dl, cb, "constraint_violated")
        cs == Deliveries(dl, cb, "contract_stopped")
        ct == Deliveries(dl, cb, "contract_terminated")
    IN /\ Cardinality(cv) = 1
       /\ Cardinality(ct) = 1
       /\ \A i \in cv : dl[i].event.data.violations = vs
       /\ \A i \in cv, j \in ct : i < j
       /\ \E m \in cs : \A i \in cv, j \in ct : i < m /\ m < j

\* C4 as stated: in strict mode, any check_constraints() call that finds a
\* violation delivers constraint_violated, contract_stopped and
\* contract_terminated, once each and in that order, to every callback.
C4_AnyStrictCheck ==
  [][ (last'.op = "check_constraints" /\ strict_mode /\ Exceeded # {}) =>
        ViolationThenTermination(last'.dl, monitor_check_constraints(constraints, usage))
    ]_vars

\* C4 amended: the same, for a check_constraints() call made while the
\* enforcer is active (started, contract ACTIVE).
C4_ActiveStrictCheck ==
  [][ (last'.op = "check_constraints" /\ strict_mode /\ IsActive /\ Exceeded # {}) =>
        ViolationThenTermination(last'.dl, monitor_check_constraints(constraints, usage))
    ]_vars

\* Two observers have each received the three events of a strict violation
\* that exceeded two budgets at once.
C4_Witness ==
  /\ last.op = "check_constraints"
  /\ strict_mode
  /\ state = VIOLATED
  /\ Len(callbacks) = 2
  /\ Len(last.dl) = 6
  /\ last.ret.kind = "check"
  /\ Len(last.ret.violations) = 2

EnforcerCalls == {"start", "stop", "check_constraints", "check_temporal_constraints"}

\* The enforcer operation op run on the current state with the callbacks in
\* bad raising.
EnforcerCall(op, bad) ==
  CASE op = "start" -> start(World, bad)
    [] op = "stop" -> stop(World, NoReasonMsg, bad)
    [] op = "check_constraints" -> check_constraints(World, bad)
    [] op = "check_temporal_constraints" -> check_temporal_constraints(World, bad)

\* The delivery log is a sequence of rounds, one per event, each round
\* visiting the registered callbacks in registration order.
InRegistrationOrder(dl) ==
  LET n == Len(callbacks)
  IN IF n = 0 THEN dl = << >>
     ELSE /\ Len(dl) % n = 0
          /\ \A i \in 1..Len(dl) :
               /\ dl[i].cb = callbacks[((i - 1) % n) + 1]
               /\ dl[i].event = dl[i - ((i - 1) % n)].event

\* C5: whichever callbacks raise, every event an enforcer operation emits
\* reaches every registered callback in registration order, and the operation
\* ends with the state, the outcome and the return value it has when no
\* callback raises.
C5_CallbackIsolation ==
  [][ last'.op \in EnforcerCalls =>
        LET quiet == EnforcerCall(last'.op, {})
        IN /\ InRegistrationOrder(last'.dl)
           /\ Len(last'.dl) = Len(quiet.dl)
           /\ \A i \in 1..Len(last'.dl) : last'.dl[i].event = quiet.dl[i].event
           /\ last'.exc = quiet.exc
           /\ last'.ret = quiet.ret
           /\ state' = quiet.state
           /\ enforcement_active' = quiet.enforcement_active
           /\ metadata' = quiet.metadata
           /\ violations' = quiet.violations ]_vars

\* A callback raised and a callback registered after it still got the event.
C5_Witness ==
  /\ last.op \in EnforcerCalls
  /\ \E i, j \in 1..Len(last.dl) :
       /\ i < j
       /\ last.dl[i].raised
       /\ ~last.dl[j].raised
       /\ last.dl[i].event = last.dl[j].event

\* What start() and stop() must leave alone when they have nothing to do.
EnforcerUntouched ==
  /\ UNCHANGED << state, metadata, enforcement_active, callbacks, usage,
                  violations, events >>
  /\ last'.dl = << >>

\* C6: start() on an enforcer whose enforcement is active raises and changes
\* nothing; stop() on an enforcer whose enforcement is not active changes
\* nothing and emits nothing.
C6_StartTwiceStopIdle ==
  [][ /\ (last'.op = "start" /\ enforcement_active) =>
           (last'.exc = "RuntimeError: Enforcement is already active" /\ EnforcerUntouched)
      /\ (last'.op = "stop" /\ ~enforcement_active) =>
           (last'.exc = NoExc /\ EnforcerUntouched) ]_vars

\* A second start() has just been refused while observers were registered.
C6_Witness ==
  /\ last.op = "start"
  /\ last.exc = "RuntimeError: Enforcement is already active"
  /\ enforcement_active
  /\ Len(callbacks) > 0

\* The absolute deadline has passed, or the elapsed time exceeds max_duration.
TimeExceeded ==
  \/ temporal.deadline # None /\ now > temporal.deadline
  \/ temporal.max_duration # None /\ elapsed_time > temporal.max_duration

TemporalEvents == {"deadline_exceeded", "duration_exceeded"}

\* C7: on an active enforcer whose time limit is exceeded,
\* check_temporal_constraints() returns True; in strict mode the contract
\* becomes EXPIRED and is_active() false; in lenient mode each callback gets
\* one deadline_exceeded or duration_exceeded event and nothing else, and the
\* contract stays ACTIVE.
C7_TemporalModes ==
  [][ (last'.op = "check_temporal_constraints" /\ IsActive /\ TimeExceeded) =>
        /\ last'.exc = NoExc
        /\ last'.ret = [kind |-> "bool", value |-> TRUE]
        /\ (strict_mode => state' = EXPIRED /\ ~IsActiveAfter)
        /\ (~strict_mode =>
              /\ state' = ACTIVE
              /\ IsActiveAfter
              /\ Len(last'.dl) = Len(callbacks)
              /\ \A i \in 1..Len(last'.dl) : last'.dl[i].event.type \in TemporalEvents)
    ]_vars

\* A strict temporal check has just expired a contract over its max_duration.
C7_Witness ==
  /\ last.op = "check_temporal_constraints"
  /\ last.ret = [kind |-> "bool", value |-> TRUE]
  /\ strict_mode
  /\ state = EXPIRED
  /\ temporal.max_duration # None

\* execute() has just returned an ExecutionResult.
Executed == last.op = "execute" /\ last.exc = NoExc /\ last.ret.kind = "result"

\* C8: after execute() returns success=True the contract is ACTIVE; after it
\* returns with a constraint violated or a null result the contract is VIOLATED.
C8_ExecuteFinalState ==
  Executed =>
    /\ (last.ret.success => state = ACTIVE)
    /\ ((Exceeded # {} \/ last.ret.output = OutcomeNull) => state = VIOLATED)

\* C9: after execute() of an operation that returned a value with no limit
\* exceeded, success is True and the contract, and the log's final_state, are
\* FULFILLED.
C9_ExecuteFulfills ==
  (Executed /\ last.arg.outcome = OutcomeValue /\ Exceeded = {}) =>
    /\ last.ret.success
    /\ state = FULFILLED
    /\ (execution_log.present => execution_log.final_state = FULFILLED)

ExceededAfter == { r \in ResourceNames : constraints[r] # None /\ usage'[r] > constraints[r] }

\* C11: when the check after the operation finds a limit exceeded, execute()
\* records the violation; in strict mode it then raises
\* ContractViolationError, in lenient mode it returns a result and raises
\* nothing.
C11_StrictExecuteRaises ==
  [][ (/\ last'.op = "execute"
       /\ last'.arg.outcome # OutcomeRaise
       /\ (enforcement_active \/ state = DRAFTED)
       /\ ExceededAfter # {}) =>
        /\ Len(violations') > Len(violations)
        /\ (strict_mode => last'.exc = "ContractViolationError")
        /\ (~strict_mode => last'.exc = NoExc /\ last'.ret.kind = "result") ]_vars

\* C12: in strict mode, a completion() call made once the contract is
\* VIOLATED raises ContractViolationError ('already violated') from the check
\* before the call, and litellm's completion is not called.
C12_ViolatedBlocksCompletion ==
  [][ (last'.op = "completion" /\ strict_mode /\ state = VIOLATED) =>
        /\ last'.exc = "ContractViolationError: Contract already violated"
        /\ ~last'.called ]_vars

\* C19: a completion() that returns increases usage.api_calls by exactly 1
\* and usage.tokens by exactly the response's prompt_tokens +
\* completion_tokens, with or without a reasoning/text breakdown.
C19_CompletionCountsOnce ==
  [][ (last'.op = "completion" /\ last'.exc = NoExc) =>
        /\ usage'.api_calls = usage.api_calls + 1
        /\ usage'.tokens = usage.tokens + last'.arg.resp.prompt_tokens
                                        + last'.arg.resp.completion_tokens ]_vars

\* C13: whenever reasoning_tokens or text_tokens is nonzero,
\* tokens = reasoning_tokens + text_tokens.
C13_TokensAreTheBreakdown ==
  (usage.reasoning_tokens # 0 \/ usage.text_tokens # 0) =>
    usage.tokens = usage.reasoning_tokens + usage.text_tokens

UsageCalls ==
  {"add_tokens", "add_api_call", "add_web_search", "add_tool_invocation",
   "update_memory", "add_compute_time", "add_cost"}

Counters == ResourceNames \ {"memory_mb"}

\* C14: across ResourceUsage mutator calls no counter ever decreases,
\* memory_mb is the largest reading passed to update_memory so far (an
\* accepted reading raises it to the larger of the two, nothing else changes
\* it), and a call rejected for a negative argument changes no field.
C14_MonotoneUsage ==
  [][ last'.op \in UsageCalls =>
        /\ \A r \in Counters : usage'[r] >= usage[r]
        /\ usage'.memory_mb =
             (IF last'.op = "update_memory" /\ last'.arg.value > usage.memory_mb
              THEN last'.arg.value ELSE usage.memory_mb)
        /\ (last'.exc # NoExc => usage' = usage) ]_vars

\* A smaller reading has just been reported after a larger one.
C14_Witness ==
  /\ last.op = "update_memory"
  /\ last.exc = NoExc
  /\ last.arg.value > 0
  /\ last.arg.value < usage.memory_mb

\* The violations in vs that name resource r.
ViolationsOf(vs, r) == { i \in 1..Len(vs) : vs[i].resource = r }

\* C15: ResourceMonitor.check_constraints() returns exactly one violation,
\* carrying the limit and the current usage, for each resource whose limit is
\* set and strictly exceeded, and none for any other resource.
C15_ExactViolations ==
  last.op = "monitor_check_constraints" =>
    \A r \in ResourceNames :
      LET found == ViolationsOf(last.ret.violations, r)
      IN IF r \in Exceeded
         THEN /\ Cardinality(found) = 1
              /\ \A i \in found :
                   /\ last.ret.violations[i].limit = constraints[r]
                   /\ last.ret.violations[i].actual = usage[r]
         ELSE found = {}

\* A check has just reported the token budget exceeded while the api_calls
\* usage, equal to its limit, was not reported.
C15_Witness ==
  /\ last.op = "monitor_check_constraints"
  /\ constraints.api_calls # None
  /\ usage.api_calls = constraints.api_calls
  /\ usage.tokens > constraints.tokens
  /\ Len(last.ret.violations) = 1

\* C16: get_usage_percentage() has a key for a resource only if the resource
\* has a limit that is set and greater than zero.
C16_PercentageKeys ==
  last.op = "get_usage_percentage" =>
    \A i \in 1..Len(last.ret.entries) :
      LET r == last.ret.entries[i].resource
      IN constraints[r] # None /\ constraints[r] > 0

\* Percentages were reported while a zero-limit resource had usage: the
\* limited resources appear and the zero-limit one does not.
C16_Witness ==
  /\ last.op = "get_usage_percentage"
  /\ constraints.cost_usd = 0
  /\ usage.cost_usd > 0
  /\ Len(last.ret.entries) > 0
  /\ \A i \in 1..Len(last.ret.entries) : last.ret.entries[i].resource # "cost_usd"

\* ResourceConstraints(...) has just been called.
Constructing == last.op = "ResourceConstraints"

\* C17: constructing ResourceConstraints with tokens set together with
\* reasoning_tokens and/or text_tokens fails, whatever the values (zero
\* included), and no constraints object is produced.
C17_NoMixedTokenModes ==
  (/\ Constructing
   /\ last.arg.fields.tokens # None
   /\ (last.arg.fields.reasoning_tokens # None \/ last.arg.fields.text_tokens # None)) =>
    /\ last.exc # NoExc
    /\ last.ret = NoRet

\* A zero lumpsum budget together with a zero text budget was refused as a
\* mix of modes.
C17_Witness ==
  /\ Constructing
  /\ last.arg.fields.tokens = 0
  /\ last.arg.fields.reasoning_tokens = None
  /\ last.arg.fields.text_tokens = 0
  /\ last.exc = "ValueError: Cannot mix token budget modes"

\* Every numeric field passed is unset or non-negative, and the token modes
\* are not mixed.
PlainFields ==
  /\ \A r \in ResourceNames : last.arg.fields[r] = None \/ last.arg.fields[r] >= 0
  /\ last.arg.fields.tokens = None

\* C18: reasoning_effort='high' with a reasoning_tokens budget below 2000, or
\* 'medium' with a budget below 500, is refused; 'low' is accepted with any
\* budget.
C18_EffortNeedsBudget ==
  Constructing =>
    LET budget == last.arg.fields.reasoning_tokens
        effort == last.arg.reasoning_effort
    IN /\ (effort = "high" /\ budget # None /\ budget < HighEffortMinimum) =>
            last.exc # NoExc
       /\ (effort = "medium" /\ budget # None /\ budget < MediumEffortMinimum) =>
            last.exc # NoExc
       /\ (effort = "low" /\ PlainFields) =>
            (last.exc = NoExc /\ last.ret.kind = "constraints")

CheckCalls == {"check_temporal_constraints", "check_constraints"}

\* The calls that may end is_active(): the checks, stop() and terminate().
EndingCalls == CheckCalls \cup {"stop", "terminate"}

\* C20: the contract becomes EXPIRED only in a step that is an explicit
\* check_temporal_constraints()/check_constraints() call; the passing of
\* time, however far past the limit, and every call that is not a check or a
\* stop leave an active enforcer's contract ACTIVE and is_active() true.
C20_ExpiryOnlyOnCheck ==
  [][ /\ (state' = EXPIRED /\ state # EXPIRED) => last'.op \in CheckCalls
      /\ (IsActive /\ last'.op \notin EndingCalls) => IsActiveAfter ]_vars

\* Usage was reported on a strict enforcer whose time limit had already
\* passed, and the contract is still ACTIVE and enforced.
C20_Witness ==
  /\ last.op = "add_tokens"
  /\ strict_mode
  /\ TimeExceeded
  /\ state = ACTIVE
  /\ enforcement_active

\* ===================================================== TemporalMonitor
MaxClock == 5             \* the temporal monitor's clock runs over 0..MaxClock
MaxPressureDuration == 2  \* largest max_duration (seconds) of the contracts explored

\* A ratio of two integers, den > 0 (a Python float that is a quotient).
Fraction(num, den) == [num |-> num, den |-> den]

FractionLeq(a, b) == a.num * b.den <= b.num * a.den

FractionEq(a, b) == a.num * b.den = b.num * a.den

ZeroFraction == Fraction(0, 1)

OneFraction == Fraction(1, 1)

\* TemporalMonitor.get_elapsed(): datetime.now() - start_time.
get_elapsed(w) == now - w.tm_start_time

\* get_time_pressure without the clamp to [0, 1].
get_time_pressure_unclamped(w) ==
  IF w.tm_start_time = None \/ temporal.max_duration = None
  THEN Return(w, [kind |-> "pressure", value |-> ZeroFraction])
  ELSE Return(w, [kind |-> "pressure",
                  value |-> Fraction(get_elapsed(w), temporal.max_duration)])

\* TemporalMonitor.get_time_pressure(): 0.0 before start() or without a
\* duration constraint, otherwise clamp(elapsed / max_duration, 0, 1).
get_time_pressure(w) ==
  IF w.tm_start_time = None \/ temporal.max_duration = None
  THEN Return(w, [kind |-> "pressure", value |-> ZeroFraction])
  ELSE LET ratio == Fraction(get_elapsed(w), temporal.max_duration)
       IN Return(w, [kind |-> "pressure",
                     value |-> IF FractionLeq(ratio, ZeroFraction) THEN ZeroFraction
                               ELSE IF FractionLeq(OneFraction, ratio) THEN OneFraction
                               ELSE ratio])

\* Contracts with no temporal constraint or with a max_duration.
PressureTemporalConfigs ==
  { [deadline |-> None, max_duration |-> None] }
    \cup { [deadline |-> None, max_duration |-> d] : d \in 1..MaxPressureDuration }

\* The state after TemporalMonitor(contract).
InitTemporal ==
  /\ state = DRAFTED
  /\ metadata = [violation_reason |-> NoReasonMsg, termination_reason |-> NoReasonMsg]
  /\ constraints \in ConstraintConfigs
  /\ temporal \in PressureTemporalConfigs
  /\ strict_mode = TRUE
  /\ enable_logging = FALSE
  /\ enforcement_active = FALSE
  /\ callbacks = << >>
  /\ usage = ZeroUsage
  /\ usage_start_time = 0
  /\ violations = << >>
  /\ events = << >>
  /\ execution_log = NoLog
  /\ tm_start_time = None
  /\ auto_start = TRUE
  /\ started = FALSE
  /\ peer_active = FALSE
  /\ now = 0
  /\ last = [op |-> "init", arg |-> NoArg, exc |-> NoExc, ret |-> NoRet, dl |-> << >>,
             called |-> FALSE]

TemporalStart ==
  Commit("temporal_monitor_start", NoArg, temporal_monitor_start(World))

GetTimePressure ==
  Commit("get_time_pressure", NoArg, get_time_pressure(World))

TickClock ==
  /\ now < MaxClock
  /\ now' = now + 1
  /\ last' = [op |-> "tick", arg |-> NoArg, exc |-> NoExc, ret |-> NoRet, dl |-> << >>,
              called |-> FALSE]
  /\ UNCHANGED << state, metadata, constraints, temporal, strict_mode, enable_logging,
                  enforcement_active, callbacks, usage, usage_start_time, violations,
                  events, execution_log, tm_start_time, auto_start, started,
                  peer_active >>

NextTemporal ==
  \/ TemporalStart
  \/ GetTimePressure
  \/ TickClock

SpecTemporal == InitTemporal /\ [][NextTemporal]_vars

\* The pressure a get_time_pressure() call made in this state would return.
TimePressure == get_time_pressure(World).ret.value

\* C21: get_time_pressure() returns 0.0 before start() and whenever the
\* contract has no duration constraint; after start() it returns
\* elapsed/max_duration clamped to [0, 1]: it lies within [0, 1], it is exactly
\* 1.0 once the elapsed time has reached max_duration, and it never decreases
\* while the clock advances.
C21_TimePressure ==
  [][ /\ (last'.op = "get_time_pressure") =>
           LET p == last'.ret.value
               d == temporal.max_duration
               elapsed == now - tm_start_time
           IN /\ FractionLeq(ZeroFraction, p) /\ FractionLeq(p, OneFraction)
              /\ (tm_start_time = None \/ d = None) => p = ZeroFraction
              /\ (tm_start_time # None /\ d # None /\ elapsed >= d) => p = OneFraction
              /\ (tm_start_time # None /\ d # None /\ elapsed < d)
                    => FractionEq(p, Fraction(elapsed, d))
      /\ (now' > now) => FractionLeq(TimePressure, TimePressure')
    ]_vars

\* A started monitor whose elapsed time is past max_duration reports 1.0.
C21_Witness ==
  /\ last.op = "get_time_pressure"
  /\ tm_start_time # None
  /\ temporal.max_duration # None
  /\ now - tm_start_time > temporal.max_duration
  /\ last.ret.value = OneFraction

\* ============================================== strategic planner (planning.py)
MaxTasks == 2         \* longest task list handed to the planner

URGENT == "urgent"
BALANCED == "balanced"
ECONOMICAL == "economical"

ContractModes == {URGENT, BALANCED, ECONOMICAL}

\* TaskPriority: the members' values.
CRITICAL == "critical"
HIGH == "high"
MEDIUM == "medium"
LOW == "low"

TaskPriorities == {CRITICAL, HIGH, MEDIUM, LOW}

\* Python's ordering of the TaskPriority values, which are strings.
PriorityValueOrder == << "critical", "high", "low", "medium" >>

PriorityValueRank(p) == CHOOSE i \in 1..Len(PriorityValueOrder) : PriorityValueOrder[i] = p

\* prioritize_tasks.priority_scores
priority_scores(p) ==
  CASE p = CRITICAL -> 4
    [] p = HIGH -> 3
    [] p = MEDIUM -> 2
    [] p = LOW -> 1

\* A Task: estimated_quality is held in percent; name and estimated_time play
\* no part in the token allocation or in the ordering.
Task(id, tokens, quality, priority, required) ==
  [id |-> id, estimated_tokens |-> tokens, estimated_quality |-> quality,
   priority |-> priority, required |-> required]

\* A ResourceAllocation: the task it is for and its allocated_tokens.
ResourceAllocation(task_id, allocated) ==
  [task_id |-> task_id, allocated_tokens |-> allocated]

\* int(a / b) for b > 0: Python's int() truncates toward zero.
TruncDiv(a, b) == IF a >= 0 THEN a \div b ELSE -((-a) \div b)

Min(a, b) == IF a <= b THEN a ELSE b

Max(a, b) == IF a >= b THEN a ELSE b

\* int(n * 0.7) in IEEE-754 double arithmetic, n >= 0.  The double nearest to
\* 0.7 lies below 7/10, so for n = 10m the product n * 0.7 is rounded to the
\* double just below 7m, and truncated to 7m - 1, whenever a power of two lies
\* in [3.5m, 4m); in every other case the result is floor(7n / 10).
TruncTimes07(n) ==
  IF n % 10 = 0 /\ \E k \in 0..24 : 7 * (n \div 10) <= 2 * 2^k /\ 2^k < 4 * (n \div 10)
  THEN 7 * (n \div 10) - 1
  ELSE (7 * n) \div 10

\* int(n * 0.6), int(n * 0.8), int(n * 0.9) and int(n * 1.2): for these
\* factors the double product never falls below an integer it should reach.
TruncTimes06(n) == TruncDiv(6 * n, 10)

TruncTimes08(n) == TruncDiv(8 * n, 10)

TruncTimes09(n) == TruncDiv(9 * n, 10)

TruncTimes12(n) == TruncDiv(12 * n, 10)

\* lexicographic order on tuples of integers of one length (Python tuples)
LexLess(a, b) ==
  \E i \in 1..Len(a) : a[i] < b[i] /\ \A j \in 1..(i - 1) : a[j] = b[j]

\* sorted(s, key): ascending and stable; key[i] is the key of s[i].
Sorted(s, key) ==
  LET n == Len(s)
      pos(i) == 1 + Cardinality({ j \in 1..n : \/ LexLess(key[j], key[i])
                                               \/ key[j] = key[i] /\ j < i })
  IN [p \in 1..n |-> s[CHOOSE i \in 1..n : pos(i) = p]]

\* sorted(s, key, reverse=True): descending, equal keys keep their input order.
SortedReverse(s, key) ==
  LET n == Len(s)
      pos(i) == 1 + Cardinality({ j \in 1..n : \/ LexLess(key[i], key[j])
                                               \/ key[j] = key[i] /\ j < i })
  IN [p \in 1..n |-> s[CHOOSE i \in 1..n : pos(i) = p]]

RECURSIVE SumFrom(_, _)
SumFrom(i, numbers) ==
  IF i > Len(numbers) THEN 0 ELSE numbers[i] + SumFrom(i + 1, numbers)

\* sum(task.estimated_tokens for task in tasks)
total_estimated(tasks) == SumFrom(1, [i \in 1..Len(tasks) |-> tasks[i].estimated_tokens])

\* The sort of _allocate_urgent and _allocate_economical:
\* key (not t.required, t.priority.value).
allocation_order(tasks) ==
  Sorted(tasks, [i \in 1..Len(tasks) |->
                   << IF tasks[i].required THEN 0 ELSE 1,
                      PriorityValueRank(tasks[i].priority) >>])

allocate_urgent(tasks) ==
  LET sorted_tasks == allocation_order(tasks)
  IN [i \in 1..Len(sorted_tasks) |->
        LET task == sorted_tasks[i]
        IN ResourceAllocation(task.id,
             IF task.required \/ task.priority \in {CRITICAL, HIGH}
             THEN TruncTimes12(task.estimated_tokens)
             ELSE task.estimated_tokens)]

\* The loop of _allocate_economical from the i-th sorted task on.
RECURSIVE EconomicalFrom(_, _, _, _)
EconomicalFrom(i, sorted_tasks, usable_budget, allocated_so_far) ==
  IF i > Len(sorted_tasks) THEN << >>
  ELSE LET task == sorted_tasks[i]
           allocated ==
             IF task.required THEN TruncTimes07(task.estimated_tokens)
             ELSE IF allocated_so_far < usable_budget
             THEN Min(TruncTimes06(task.estimated_tokens),
                      usable_budget - allocated_so_far)
             ELSE 0
       IN << ResourceAllocation(task.id, allocated) >>
            \o EconomicalFrom(i + 1, sorted_tasks, usable_budget,
                              allocated_so_far + allocated)

\* _allocate_economical without the 20% buffer.
allocate_economical_no_buffer(tasks, remaining_tokens) ==
  EconomicalFrom(1, allocation_order(tasks), remaining_tokens, 0)

allocate_economical(tasks, remaining_tokens) ==
  EconomicalFrom(1, allocation_order(tasks), TruncTimes08(remaining_tokens), 0)

\* _allocate_balanced: int(est * (usable / total)) is the truncated exact
\* quotient est * usable / total for every estimate and budget explored here.
allocate_balanced(w, tasks, remaining_tokens) ==
  LET usable_budget == TruncTimes09(remaining_tokens)
      total == total_estimated(tasks)
  IN IF total <= usable_budget
     THEN Return(w, [kind |-> "allocations",
                     value |-> [i \in 1..Len(tasks) |->
                                  ResourceAllocation(tasks[i].id,
                                                     tasks[i].estimated_tokens)]])
     ELSE IF total = 0
     THEN Raise(w, "ZeroDivisionError: division by zero")
     ELSE Return(w, [kind |-> "allocations",
                     value |-> [i \in 1..Len(tasks) |->
                       LET task == tasks[i]
                           allocated == TruncDiv(task.estimated_tokens * usable_budget,
                                                 total)
                       IN ResourceAllocation(task.id,
                            IF task.required
                            THEN Max(allocated, TruncTimes08(task.estimated_tokens))
                            ELSE allocated)]])

\* plan_resource_allocation(tasks, contract, current_usage): contract is the
\* mode and the token limit; current_usage is None or its tokens.
plan_resource_allocation(w, tasks, contract, current_usage) ==
  IF contract.tokens = None
  THEN Return(w, [kind |-> "allocations",
                  value |-> [i \in 1..Len(tasks) |->
                               ResourceAllocation(tasks[i].id,
                                                  tasks[i].estimated_tokens)]])
  ELSE LET used_tokens == IF current_usage # None THEN current_usage ELSE 0
           remaining_tokens == contract.tokens - used_tokens
       IN IF contract.mode = URGENT
          THEN Return(w, [kind |-> "allocations", value |-> allocate_urgent(tasks)])
          ELSE IF contract.mode = ECONOMICAL
          THEN Return(w, [kind |-> "allocations",
                          value |-> allocate_economical(tasks, remaining_tokens)])
          ELSE allocate_balanced(w, tasks, remaining_tokens)

\* The budget utilization of prioritize_tasks and recommend_strategy, as a
\* ratio: 0.0 unless there is a current usage and a truthy token limit.
utilization(contract, current_usage) ==
  IF current_usage # None /\ contract.tokens # None /\ contract.tokens # 0
  THEN Fraction(current_usage, contract.tokens)
  ELSE ZeroFraction

\* utilization > percent / 100
UtilizationAbove(u, percent) == u.num * 100 > percent * u.den

\* utilization < percent / 100
UtilizationBelow(u, percent) == u.num * 100 < percent * u.den

\* task_score with the priority score ahead of the required score.
task_score_priority_first(task, contract, current_usage) ==
  << priority_scores(task.priority), IF task.required THEN 1 ELSE 0,
     -task.estimated_tokens >>

\* prioritize_tasks.task_score
task_score(task, contract, current_usage) ==
  LET under_pressure == UtilizationAbove(utilization(contract, current_usage), 70)
      required_score == IF under_pressure
                        THEN (IF task.required THEN 2 ELSE 0)
                        ELSE (IF task.required THEN 1 ELSE 0)
      base_score == priority_scores(task.priority)
      quality_penalty == IF contract.mode = URGENT /\ task.estimated_quality < 80
                         THEN -1 ELSE 0
      resource_penalty == IF contract.mode = ECONOMICAL /\ task.estimated_tokens > 5000
                          THEN -1 ELSE 0
      final_score == base_score + quality_penalty + resource_penalty
  IN << required_score, final_score, -task.estimated_tokens >>

prioritize_tasks(w, tasks, contract, current_usage) ==
  Return(w, [kind |-> "tasks",
             value |-> SortedReverse(tasks,
                         [i \in 1..Len(tasks) |->
                            task_score(tasks[i], contract, current_usage)])])

\* The mode-specific branch of recommend_strategy: the approach it recommends
\* and should_continue.
Strategy(approach, should_continue) ==
  [approach |-> approach, should_continue |-> should_continue]

\* The branch with an URGENT contract that gives up above 90%.
mode_strategy_urgent_stops(mode, u) ==
  IF mode = URGENT /\ UtilizationAbove(u, 90)
  THEN Strategy("Complete core objectives immediately, skip all optional tasks", FALSE)
  ELSE Strategy("Standard execution - balanced resource allocation",
                ~(mode = ECONOMICAL /\ UtilizationAbove(u, 80)))

mode_strategy(mode, u) ==
  IF mode = URGENT
  THEN IF UtilizationAbove(u, 90)
       THEN Strategy("Complete core objectives immediately, skip all optional tasks", TRUE)
       ELSE IF UtilizationAbove(u, 70)
       THEN Strategy("Focus on required tasks, use fastest available methods", TRUE)
       ELSE Strategy("Prioritize speed using parallel operations and caching", TRUE)
  ELSE IF mode = ECONOMICAL
  THEN IF UtilizationAbove(u, 80)
       THEN Strategy("Enter strict conservation mode - parametric knowledge only, no API calls",
                     FALSE)
       ELSE IF UtilizationAbove(u, 60)
       THEN Strategy("Reduce resource usage - batch operations, minimal API calls", TRUE)
       ELSE Strategy("Maintain efficiency - batch operations, leverage caching", TRUE)
  ELSE IF UtilizationAbove(u, 85)
       THEN Strategy("Reduce scope - focus on highest-value tasks only", TRUE)
       ELSE IF UtilizationAbove(u, 70)
       THEN Strategy("Monitor usage closely - balance quality and efficiency", TRUE)
       ELSE Strategy("Standard execution - balanced resource allocation", TRUE)

\* recommend_strategy: the StrategyRecommendation without its warnings.
recommend_strategy(w, contract, current_usage) ==
  LET u == utilization(contract, current_usage)
      risk_level == IF UtilizationBelow(u, 30) THEN "low"
                    ELSE IF UtilizationBelow(u, 70) THEN "medium"
                    ELSE "high"
      strategy == mode_strategy(contract.mode, u)
  IN Return(w, [kind |-> "recommendation", mode |-> contract.mode,
                budget_utilization |-> u, risk_level |-> risk_level,
                recommended_approach |-> strategy.approach,
                should_continue |-> strategy.should_continue])

\* ------------------------------------------------------------ planner actions
\* The tasks handed to plan_resource_allocation: estimates of a few tokens and
\* of 90 tokens, at every priority, required or optional.
AllocationEstimates == {10, 90}

AllocationKinds ==
  { Task(0, tokens, 80, priority, required) :
      tokens \in AllocationEstimates, priority \in TaskPriorities, required \in BOOLEAN }

\* The tasks handed to prioritize_tasks: light ones of high estimated quality,
\* and heavy ones (above 5000 tokens) of low estimated quality (below 0.8).
PrioritizeKinds ==
  { Task(0, 1000, 90, priority, required) :
      priority \in TaskPriorities, required \in BOOLEAN }
    \cup { Task(0, 6000, 70, priority, required) :
             priority \in TaskPriorities, required \in BOOLEAN }

\* The lists of at most MaxTasks tasks of the given kinds; a task's id is its
\* position in the caller's list.
TaskLists(kinds) ==
  UNION { { [i \in 1..n |-> [ks[i] EXCEPT !.id = i]] : ks \in [1..n -> kinds] } :
          n \in 0..MaxTasks }

\* A token limit with a current usage (None: no limit, no current_usage).
Budget(tokens, current_usage) == [tokens |-> tokens, current_usage |-> current_usage]

\* The budgets of the allocation calls: no limit, and remaining budgets of 8,
\* 5, 100 and -100 tokens.
AllocationBudgets ==
  { Budget(None, None), Budget(8, None), Budget(8, 3), Budget(100, None),
    Budget(100, 200) }

\* The budgets of the ordering calls: utilization of 0, 70% and 80%.
PrioritizeBudgets == { Budget(None, None), Budget(10, 7), Budget(10, 8) }

\* The budgets of the strategy calls: no limit, a zero limit, no usage, and
\* every utilization from 0 to 120% in steps of 10%.
StrategyBudgets ==
  { Budget(None, None), Budget(None, 5), Budget(0, 5), Budget(10, None) }
    \cup { Budget(10, used) : used \in 0..12 }

Contract(mode, tokens) == [mode |-> mode, tokens |-> tokens]

PlannerArg(tasks, contract, current_usage) ==
  [outcome |-> "none", delta |-> 0, tasks |-> tasks, contract |-> contract,
   current_usage |-> current_usage]

\* Before any planner call.
InitPlanning ==
  /\ Constructed({NoConstraints}, {FALSE}, {TRUE})
  /\ temporal = [deadline |-> None, max_duration |-> None]
  /\ ~strict_mode

\* One planner call, with any of the arguments tried.
PlanResourceAllocation ==
  /\ last.op = "init"
  /\ \E tasks \in TaskLists(AllocationKinds), mode \in ContractModes,
        budget \in AllocationBudgets :
       Commit("plan_resource_allocation",
              PlannerArg(tasks, Contract(mode, budget.tokens), budget.current_usage),
              plan_resource_allocation(World, tasks, Contract(mode, budget.tokens),
                                       budget.current_usage))

PrioritizeTasks ==
  /\ last.op = "init"
  /\ \E tasks \in TaskLists(PrioritizeKinds), mode \in ContractModes,
        budget \in PrioritizeBudgets :
       Commit("prioritize_tasks",
              PlannerArg(tasks, Contract(mode, budget.tokens), budget.current_usage),
              prioritize_tasks(World, tasks, Contract(mode, budget.tokens),
                               budget.current_usage))

RecommendStrategy ==
  /\ last.op = "init"
  /\ \E mode \in ContractModes, budget \in StrategyBudgets :
       Commit("recommend_strategy",
              PlannerArg(<< >>, Contract(mode, budget.tokens), budget.current_usage),
              recommend_strategy(World, Contract(mode, budget.tokens),
                                 budget.current_usage))

NextPlanning ==
  \/ PlanResourceAllocation
  \/ PrioritizeTasks
  \/ RecommendStrategy

SpecPlanning == InitPlanning /\ [][NextPlanning]_vars

\* ------------------------------------------------------------ planner claims
\* A plan_resource_allocation call in the given mode with a token limit set.
PlanCall(mode) ==
  /\ last.op = "plan_resource_allocation"
  /\ last.arg.contract.mode = mode
  /\ last.arg.contract.tokens # None

\* The remaining token budget of the last planner call.
RemainingTokens ==
  last.arg.contract.tokens
    - (IF last.arg.current_usage # None THEN last.arg.current_usage ELSE 0)

\* The tokens the returned allocations give to the task with this id.
AllocatedTo(id) ==
  LET out == last.ret.value
  IN (CHOOSE a \in { out[i] : i \in 1..Len(out) } : a.task_id = id).allocated_tokens

AllocatedTokens ==
  [i \in 1..Len(last.ret.value) |-> last.ret.value[i].allocated_tokens]

\* C22: prioritize_tasks places every required task before every optional
\* task, whatever the priorities, qualities, token estimates, contract mode and
\* budget utilization.
C22_RequiredFirst ==
  (last.op = "prioritize_tasks") =>
     LET out == last.ret.value
     IN /\ Len(out) = Len(last.arg.tasks)
        /\ { out[i] : i \in 1..Len(out) }
             = { last.arg.tasks[i] : i \in 1..Len(out) }
        /\ \A i, j \in 1..Len(out) :
             (out[i].required /\ ~out[j].required) => i < j

\* A required LOW-priority task that was listed after an optional task of the
\* highest priority comes out first.
C22_Witness ==
  /\ last.op = "prioritize_tasks"
  /\ Len(last.arg.tasks) = 2
  /\ ~last.arg.tasks[1].required /\ last.arg.tasks[1].priority = CRITICAL
  /\ last.arg.tasks[2].required /\ last.arg.tasks[2].priority = LOW
  /\ last.arg.tasks[2].estimated_tokens > 5000
  /\ last.arg.contract.mode = ECONOMICAL
  /\ last.ret.value[1].id = 2

\* C23: in ECONOMICAL mode with a token limit, every required task is
\* allocated exactly floor(0.7 x its estimated tokens).
C23_RequiredGetsSeventyPercent ==
  PlanCall(ECONOMICAL) =>
     \A i \in 1..Len(last.arg.tasks) :
        LET task == last.arg.tasks[i]
        IN task.required => AllocatedTo(task.id) = (7 * task.estimated_tokens) \div 10

\* C24: in BALANCED mode with a token limit, the sum of the allocated tokens
\* never exceeds the remaining token budget.
C24_BalancedWithinRemaining ==
  (PlanCall(BALANCED) /\ last.exc = NoExc) =>
     SumFrom(1, AllocatedTokens) <= RemainingTokens

\* C25: plan_resource_allocation returns one allocation per input task, the
\* i-th allocation being the i-th input task's, in every mode.
C25_AllocationsFollowInput ==
  (last.op = "plan_resource_allocation") =>
     /\ last.exc = NoExc
     /\ Len(last.ret.value) = Len(last.arg.tasks)
     /\ \A i \in 1..Len(last.arg.tasks) :
          last.ret.value[i].task_id = last.arg.tasks[i].id

\* C26: recommend_strategy returns should_continue = False exactly when the
\* mode is ECONOMICAL and the token utilization is above 80%; URGENT and
\* BALANCED continue at every utilization.
C26_StopOnlyEconomicalAbove80 ==
  (last.op = "recommend_strategy") =>
     LET tokens == last.arg.contract.tokens
         used == last.arg.current_usage
         above80 == /\ used # None
                    /\ tokens # None /\ tokens > 0
                    /\ 10 * used > 8 * tokens
     IN (~last.ret.should_continue)
           <=> (last.arg.contract.mode = ECONOMICAL /\ above80)

\* An ECONOMICAL contract at 90% utilization is told to stop.
C26_Witness ==
  /\ last.op = "recommend_strategy"
  /\ last.arg.contract.mode = ECONOMICAL
  /\ last.arg.contract.tokens = 10
  /\ last.arg.current_usage = 9
  /\ ~last.ret.should_continue

\* C29: in ECONOMICAL mode an optional task receives min(floor(0.6 x estimate),
\* usable budget still unallocated when it is reached), and zero once the
\* usable budget (80% of the remaining tokens) has been reached; so the total
\* exceeds the usable budget only if the required tasks' allocations alone
\* exceed it, and then every optional task gets zero.
C29_OptionalWithinUsable ==
  PlanCall(ECONOMICAL) =>
     LET out == last.ret.value
         tasks == last.arg.tasks
         usable == TruncDiv(8 * RemainingTokens, 10)
         before(i) == SumFrom(1, SubSeq(AllocatedTokens, 1, i - 1))
         required(i) == tasks[out[i].task_id].required
         estimate(i) == tasks[out[i].task_id].estimated_tokens
         required_total ==
           SumFrom(1, [i \in 1..Len(out) |->
                         IF required(i) THEN out[i].allocated_tokens ELSE 0])
     IN /\ \A i \in 1..Len(out) :
             ~required(i) =>
                out[i].allocated_tokens
                  = IF before(i) < usable
                    THEN Min((6 * estimate(i)) \div 10, usable - before(i))
                    ELSE 0
        /\ (SumFrom(1, AllocatedTokens) > usable) =>
             /\ required_total > usable
             /\ \A i \in 1..Len(out) : ~required(i) => out[i].allocated_tokens = 0

\* A required task is funded and the optional task after it gets only what is
\* left of the usable budget.
C29_Witness ==
  /\ PlanCall(ECONOMICAL)
  /\ \E i, j \in 1..Len(last.arg.tasks) :
       /\ last.arg.tasks[i].required
       /\ ~last.arg.tasks[j].required
       /\ AllocatedTo(j) > 0
       /\ AllocatedTo(j) < (6 * last.arg.tasks[j].estimated_tokens) \div 10

\* C30: ECONOMICAL allocation funds optional tasks in the order CRITICAL, HIGH,
\* MEDIUM, LOW: no optional task of lower priority receives a positive
\* allocation while an optional task of higher priority, whose 60% share is
\* positive, receives zero.
C30_FundedInPriorityOrder ==
  PlanCall(ECONOMICAL) =>
     \A i, j \in 1..Len(last.arg.tasks) :
        LET higher == last.arg.tasks[i]
            lower == last.arg.tasks[j]
        IN ~( /\ ~higher.required /\ ~lower.required
              /\ priority_scores(higher.priority) > priority_scores(lower.priority)
              /\ (6 * higher.estimated_tokens) \div 10 > 0
              /\ AllocatedTo(higher.id) = 0
              /\ AllocatedTo(lower.id) > 0 )

\* ------------------------------------------------------- enforcement audit
\* C27: in strict mode, a callback that receives constraint_violated finds each
\* reported violation already in monitor.violations, and a callback that
\* receives contract_terminated finds the contract already VIOLATED, with
\* metadata['violation_reason'] listing every violated resource with its
\* actual and limit, and is_active() already false.
C27_AuditBeforeAnnouncement ==
  strict_mode =>
     \A k \in 1..Len(last.dl) :
        LET d == last.dl[k]
            reported == d.event.data.violations
            recorded == { d.seen.violations[i] : i \in 1..Len(d.seen.violations) }
        IN /\ (d.event.type = "constraint_violated") =>
                /\ Len(reported) > 0
                /\ \A i \in 1..Len(reported) : reported[i] \in recorded
           /\ (d.event.type = "contract_terminated") =>
                /\ d.seen.state = VIOLATED
                /\ d.seen.violation_reason.details
                     = monitor_check_constraints(constraints, usage)
                /\ Len(d.seen.violation_reason.details) > 0
                /\ ~d.seen.is_active

\* A strict check has announced the violation and then the termination to a
\* callback.
C27_Witness ==
  /\ strict_mode
  /\ \E j, k \in 1..Len(last.dl) :
       /\ j < k
       /\ last.dl[j].event.type = "constraint_violated"
       /\ last.dl[k].event.type = "contract_terminated"
       /\ last.dl[k].seen.state = VIOLATED

\* ------------------------------------------------ execute() under two failures
\* C28: in strict mode, when the checks after the operation find both a
\* resource limit exceeded and the deadline or duration exceeded, execute()
\* returns success = False with the contract VIOLATED, and result.violations
\* reports the resource-constraint violation, the reason the enforcer recorded
\* in metadata['violation_reason'].
C28_BothExceededReportsResource ==
  (/\ last.op = "execute"
   /\ strict_mode
   /\ last.arg.outcome # OutcomeRaise
   /\ last.exc = NoExc
   /\ monitor_check_constraints(constraints, usage) # << >>
   /\ TimeExceeded) =>
     /\ ~last.ret.success
     /\ state = VIOLATED
     /\ metadata.violation_reason.details = monitor_check_constraints(constraints, usage)
     /\ \E i \in 1..Len(last.ret.violations) :
          last.ret.violations[i].details = metadata.violation_reason.details

\* C38: for every mode, task list with non-negative estimates and current
\* usage, usage above the token limit included, plan_resource_allocation does
\* not fail and every allocation it returns has allocated_tokens >= 0.
C38_AllocationsNonNegative ==
  (last.op = "plan_resource_allocation") =>
     /\ last.exc = NoExc
     /\ \A i \in 1..Len(last.ret.value) : last.ret.value[i].allocated_tokens >= 0

\* ================================== ContractedLLM.streaming_completion
MaxChunks == 11       \* longest stream handed to streaming_completion
CheckEvery == 10      \* constraints are checked every 10 chunks

\* The usage block of a chunk: absent (None), or prompt_tokens and
\* completion_tokens.
NoChunkUsage == [present |-> FALSE, prompt_tokens |-> 0, completion_tokens |-> 0]

ChunkUsage(prompt, completion_tokens) ==
  [present |-> TRUE, prompt_tokens |-> prompt, completion_tokens |-> completion_tokens]

\* The loop of streaming_completion from the i-th chunk on, with the totals
\* gathered so far: it ends after the last chunk or at the first exception,
\* and hands the totals and chunk_count to the finally block.
RECURSIVE StreamFrom(_, _, _, _, _, _)
StreamFrom(w, i, chunks, total_input_tokens, total_output_tokens, bad) ==
  IF i > Len(chunks)
  THEN [w |-> w, total_input_tokens |-> total_input_tokens,
        total_output_tokens |-> total_output_tokens, chunk_count |-> Len(chunks)]
  ELSE LET chunk == chunks[i]
           input == IF chunk.present THEN chunk.prompt_tokens ELSE total_input_tokens
           output == IF chunk.present
                     THEN total_output_tokens + chunk.completion_tokens
                     ELSE total_output_tokens
       IN IF i % CheckEvery = 0
          THEN LET estimated_tokens == input + output
                   w1 == IF estimated_tokens > 0
                         THEN [w EXCEPT !.usage.tokens =
                                           @ - (i - CheckEvery) + estimated_tokens]
                         ELSE w
                   w2 == check_constraints(w1, bad)
                   w3 == IF Ok(w2) /\ w2.ret.is_violated /\ strict_mode
                         THEN Raise(w2, "ContractViolationError: Contract violated during streaming")
                         ELSE w2
               IN IF Ok(w3)
                  THEN StreamFrom(w3, i + 1, chunks, input, output, bad)
                  ELSE [w |-> w3, total_input_tokens |-> input,
                        total_output_tokens |-> output, chunk_count |-> i]
          ELSE StreamFrom(w, i + 1, chunks, input, output, bad)

\* The finally block of streaming_completion, lines 255-292; the cost estimate
\* is the cost 0 of the completions explored.  An exception raised here
\* replaces the one in flight.
streaming_finally(r, bad) ==
  LET e == r.w.exc
      total_tokens == r.total_input_tokens + r.total_output_tokens
      w0 == [r.w EXCEPT !.exc = NoExc]
      w1 == IF total_tokens > 0
            THEN [w0 EXCEPT !.usage.tokens = @ - r.chunk_count + total_tokens]
            ELSE w0
      w2 == emit_event(w1,
              EnforcementEvent("llm_streaming_completion",
                               Msg("LLM streaming completion", << >>), NoData),
              bad)
      w3 == check_constraints_after_call(w2, bad)
  IN IF Ok(w3) /\ e # NoExc THEN Raise(w3, e) ELSE w3

\* streaming_completion(**kwargs), its generator consumed to the end.
streaming_completion(w, chunks, bad) ==
  LET w1 == IF auto_start /\ ~w.started THEN llm_start(w, bad) ELSE w
      w2 == check_constraints_before_call(w1, bad)
  IN IF ~Ok(w2) THEN w2
     ELSE LET w3 == [add_api_call(w2, 0, 0) EXCEPT !.called = TRUE]
          IN streaming_finally(StreamFrom(w3, 1, chunks, 0, 0, bad), bad)

\* The usage blocks a chunk may carry.
ChunkUsages ==
  {NoChunkUsage} \cup { ChunkUsage(p, c) : p \in 0..1, c \in 0..1 }

\* The streams explored: up to MaxChunks chunks, of which the first and the
\* last may carry a usage block.
Streams ==
  UNION { { [i \in 1..n |-> IF i = 1 THEN first
                            ELSE IF i = n THEN final
                            ELSE NoChunkUsage] :
              first \in ChunkUsages, final \in ChunkUsages } :
          n \in 0..MaxChunks }

\* One streaming call per ContractedLLM, consumed to the end.
StreamingCompletion ==
  /\ last.op \in {"init", "add_tokens"}
  /\ \E chunks \in Streams, bad \in BadSets :
       Commit("streaming_completion",
              [outcome |-> "none", delta |-> 0, chunks |-> chunks],
              streaming_completion(World, chunks, bad))

\* The caller reports usage of its own and streams one completion.
NextStreaming ==
  \/ (last.op = "init" /\ AddTokens)
  \/ StreamingCompletion

SpecStreaming == InitLLM /\ [][NextStreaming]_vars

\* C31: streaming_completion() never lowers usage.tokens: once the stream has
\* been consumed, usage.tokens is at least its value before the call and is
\* not negative, whatever the chunks and the usage they report.
C31_StreamingNeverLowersTokens ==
  [][ (last'.op = "streaming_completion" /\ last'.exc = NoExc) =>
        /\ usage'.tokens >= usage.tokens
        /\ usage'.tokens >= 0 ]_vars

\* ===================================== ContractAgent used through execute()
\* The agent's owner calls execute() again and again; the wrapped operation
\* and its tools report usage to the shared monitor, and time passes.
NextAgent ==
  \/ Execute
  \/ AddTokens
  \/ Tick

SpecAgent == Init /\ [][NextAgent]_vars

\* C32: in lenient mode, once an execute() has found a resource violation
\* (the monitor holds its record), every later execute() on the same agent
\* returns a result with success = False again.
C32_ViolationSticksInLenientMode ==
  [][ (~strict_mode /\ violations # << >> /\ last'.op = "execute") =>
        /\ last'.exc = NoExc
        /\ last'.ret.kind = "result"
        /\ last'.ret.success = FALSE ]_vars

\* An execute() that reported a resource violation is followed by another
\* execute() whose operation returned a value without using anything more.
C32_Witness ==
  /\ ~strict_mode
  /\ last.op = "execute"
  /\ last.arg.outcome = OutcomeValue
  /\ last.arg.delta = 0
  /\ Len(violations) >= 2
  /\ violations[1].resource = violations[2].resource
  /\ last.ret.success = FALSE

\* C33: every call of execute() returns an ExecutionResult and never raises,
\* a call made after an earlier execute() left the contract VIOLATED or
\* EXPIRED in strict mode included.
C33_ExecuteNeverRaises ==
  (last.op = "execute") => (last.exc = NoExc /\ last.ret.kind = "result")

\* C34: whenever execute() returns success = False, result.violations holds at
\* least one message, for a resource violation, a null result and an
\* exception alike, with enable_logging True or False.
C34_FailureCarriesMessage ==
  (last.op = "execute" /\ last.exc = NoExc /\ last.ret.success = FALSE) =>
     Len(last.ret.violations) >= 1

\* The call just made was a check_temporal_constraints() that reported the
\* duration limit: it returned True while the deadline had not passed.
DurationReported ==
  /\ last.op = "check_temporal_constraints"
  /\ last.exc = NoExc
  /\ last.ret.value
  /\ ~(temporal.deadline # None /\ now > temporal.deadline)

\* C35: check_temporal_constraints() reports duration_exceeded only if the
\* time elapsed since the enforcer's start() exceeds max_duration; the time
\* between constructing the enforcer and start() does not count, so a check
\* made at the very instant of a successful start() reports nothing.
C35_DurationCountsFromStart ==
  [][ (last.op = "start" /\ last.exc = NoExc) => ~DurationReported' ]_vars

\* ======================== two ContractEnforcers bound to the same contract
\* The world as the second enforcer sees it: the shared contract, its own
\* _enforcement_active flag and no callbacks.
PeerWorld ==
  [World EXCEPT !.enforcement_active = peer_active, !.callbacks = << >>]

\* After a handler of the second enforcer: the contract and that enforcer's
\* flag take the world's values; the first enforcer is left alone.
PeerCommit(op, w) ==
  /\ state' = w.state
  /\ metadata' = w.metadata
  /\ peer_active' = w.enforcement_active
  /\ last' = [op |-> op, arg |-> NoArg, exc |-> w.exc, ret |-> w.ret, dl |-> w.dl,
              called |-> w.called]
  /\ UNCHANGED << constraints, temporal, strict_mode, enable_logging,
                  enforcement_active, callbacks, usage, usage_start_time,
                  violations, events, execution_log, tm_start_time, auto_start,
                  started, now >>

PeerStart == PeerCommit("peer_start", start(PeerWorld, {}))

PeerStop == PeerCommit("peer_stop", stop(PeerWorld, NoReasonMsg, {}))

\* The caller works with both enforcers, reports usage and lets time pass.
NextSessions ==
  \/ Start
  \/ Stop
  \/ PeerStart
  \/ PeerStop
  \/ CheckConstraints
  \/ CheckTemporalConstraints
  \/ AddTokens
  \/ Tick

SpecSessions == InitEnforcer /\ [][NextSessions]_vars

StartCalls == {"start", "peer_start"}

\* C36: a contract is driven by at most one enforcement session.  Over any
\* sequence of operations on the enforcers bound to one contract a start()
\* succeeds only on a contract that is still DRAFTED and moves it out of
\* DRAFTED, and no operation brings a contract back to DRAFTED: so at most
\* one start() ever succeeds, and an enforcer that was stopped (explicitly, or
\* by a strict-mode violation or expiry) is never started again.
C36_OneEnforcementSession ==
  [][ /\ (last'.op \in StartCalls /\ last'.exc = NoExc) =>
            (state = DRAFTED /\ state' # DRAFTED)
      /\ (state # DRAFTED) => (state' # DRAFTED)
      /\ (last'.op \in StartCalls /\ state # DRAFTED) =>
            (/\ last'.exc # NoExc
             /\ enforcement_active' = enforcement_active
             /\ peer_active' = peer_active) ]_vars

\* The first enforcer ran its session and was stopped; neither it nor the
\* second enforcer is active, and a start() has just been refused.
C36_Witness ==
  /\ last.op \in StartCalls
  /\ last.exc = "ValueError: Cannot activate contract"
  /\ ~enforcement_active
  /\ ~peer_active
  /\ state # DRAFTED

\* enforcer.get_usage_summary(): the audit fields of the summary.
get_usage_summary(w) ==
  [violations |-> Len(w.violations), contract_state |-> w.state,
   is_violated |-> is_violated(constraints, w.usage)]

\* The resources the monitor finds exceeded right now.
ExceededNow == Len(monitor_check_constraints(constraints, usage))

\* C37: in lenient mode, repeating check_constraints() with unchanged usage
\* is idempotent on the audit record: monitor.violations and
\* get_usage_summary()["violations"] hold one entry per exceeded resource
\* and do not grow with the number of checks.
C37_RepeatedCheckIdempotent ==
  [][ (/\ ~strict_mode
       /\ last.op = "check_constraints" /\ last.exc = NoExc
       /\ last'.op = "check_constraints" /\ last'.exc = NoExc
       /\ usage' = usage) =>
        /\ violations' = violations
        /\ get_usage_summary(World)'.violations = ExceededNow' ]_vars

\* ============== callbacks that edit the callback list while being called
\* What the body of a user callback does with the enforcer when it is called.
ActNone == "none"
ActRemoveSelf == "remove_self"
ActRemoveOther == "remove_other"
ActAdd == "add"
Acts == {ActNone, ActRemoveSelf, ActRemoveOther, ActAdd}

\* The observer a callback registers from its body.
LateCallback == "late"

RECURSIVE RemoveFirst(_, _)
RemoveFirst(seq, x) ==
  IF seq = << >> THEN << >>
  ELSE IF Head(seq) = x THEN Tail(seq)
  ELSE << Head(seq) >> \o RemoveFirst(Tail(seq), x)

\* if callback in self.callbacks: self.callbacks.remove(callback)
remove_callback(w, cb) ==
  IF \E i \in 1..Len(w.callbacks) : w.callbacks[i] = cb
  THEN [w EXCEPT !.callbacks = RemoveFirst(@, cb)]
  ELSE w

OtherCallback(cb) == CHOOSE c \in UserCallbacks : c # cb

\* One invocation of a callback whose body may call remove_callback() or
\* add_callback() on the enforcer.
call_acting_callback(w, cb, event, acts) ==
  LET w1 == [w EXCEPT !.dl = Append(@, [cb |-> cb, event |-> event, raised |-> FALSE,
                                        seen |-> Seen(w)])]
      act == IF cb \in UserCallbacks THEN acts[cb] ELSE ActNone
  IN IF act = ActRemoveSelf THEN remove_callback(w1, cb)
     ELSE IF act = ActRemoveOther THEN remove_callback(w1, OtherCallback(cb))
     ELSE IF act = ActAdd THEN add_callback(w1, LateCallback)
     ELSE w1

\* for callback in self.callbacks: the loop walks the live list by position.
RECURSIVE EmitActingFrom(_, _, _, _)
EmitActingFrom(w, i, event, acts) ==
  IF i > Len(w.callbacks) THEN w
  ELSE EmitActingFrom(call_acting_callback(w, w.callbacks[i], event, acts),
                      i + 1, event, acts)

\* start() with such callbacks registered.
start_acting(w, acts) ==
  IF w.enforcement_active
  THEN Raise(w, "RuntimeError: Enforcement is already active")
  ELSE LET w1 == activate(w)
       IN IF ~Ok(w1) THEN w1
          ELSE EmitActingFrom([w1 EXCEPT !.enforcement_active = TRUE], 1,
                 EnforcementEvent("contract_started", Msg("enforcement started", << >>),
                                  NoData),
                 acts)

\* stop() with such callbacks registered.
stop_acting(w, reason, acts) ==
  IF ~w.enforcement_active THEN w
  ELSE EmitActingFrom([w EXCEPT !.enforcement_active = FALSE], 1,
         EnforcementEvent("contract_stopped", Msg("enforcement stopped", << >>),
                          [violations |-> << >>, reason |-> reason]),
         acts)

ActArg(acts) == [outcome |-> "none", delta |-> 0, acts |-> acts]

StartActing ==
  \E acts \in [UserCallbacks -> Acts] :
    Commit("start", ActArg(acts), start_acting(World, acts))

StopActing ==
  \E acts \in [UserCallbacks -> Acts] :
    Commit("stop", ActArg(acts), stop_acting(World, NoReasonMsg, acts))

\* The caller registers its observers, then starts and stops the enforcer.
NextDelivery ==
  \/ AddCallback
  \/ StartActing
  \/ StopActing
  \/ Tick

SpecDelivery == InitEnforcer /\ [][NextDelivery]_vars

\* How many times the call just made invoked cb.
RECURSIVE DeliveriesTo(_, _)
DeliveriesTo(dl, cb) ==
  IF dl = << >> THEN 0
  ELSE (IF Head(dl).cb = cb THEN 1 ELSE 0) + DeliveriesTo(Tail(dl), cb)

\* start() or stop() has emitted its event in this step.
Emitted ==
  /\ last'.op \in {"start", "stop"}
  /\ last'.exc = NoExc
  /\ enforcement_active' # enforcement_active

\* C39: every callback registered at the moment an event starts being
\* delivered receives that event exactly once, even if a callback calls
\* remove_callback() or add_callback() on the enforcer during the delivery.
C39_DeliveredExactlyOnce ==
  [][ Emitted => \A cb \in Registered : DeliveriesTo(last'.dl, cb) = 1 ]_vars

====
